---- MODULE Spec2Model ----
(***************************************************************************)
(* The spatial density estimation engine of featureEngineering/density.py: *)
(* _calculate_dynamic_resolution, _stratified_spatial_sample and model.    *)
(*                                                                         *)
(* A DataFrame is modelled by its rows' coordinates: a function from the   *)
(* points of Palette to the number of rows that carry that (x, y) pair, so *)
(* that a frame of a thousand rows is one small value.  Coordinates are    *)
(* integers or NaN.  Bounding boxes, bin edges and cell centres are exact  *)
(* rationals held as integers in tenths (the 10 % padding of an integer    *)
(* range is a whole number of tenths).                                     *)
(***************************************************************************)
EXTENDS Integers, Sequences, FiniteSets, TLC

VARIABLES
    calls,       \* caller -> the frame of its current call (arguments, locals, result)
    np_random,   \* numpy's process-wide generator (np.random): the draws made from it
    seeded_draws, \* the seeded draws made so far on the frames the callers hold
    etl          \* the pipeline of ETL/etl.py: clock, density table, the runs in flight

vars == <<calls, np_random, seeded_draws, etl>>

-----------------------------------------------------------------------------
(* Bounds of the model *)

MaxBase == 101        \* direct calls of the resolution selector use b in 1..MaxBase
MaxB == 3             \* model is called with base_resolution in 0..MaxB
MaxRows == 2          \* direct calls of the sampler: rows per palette point
MaxTarget == 7        \* direct calls of the sampler use n_sample in 0..MaxTarget
RngMod == 16          \* the draws from the process-wide generator are counted modulo RngMod
MaxClock == 40        \* the pipeline is followed for MaxClock minutes
MaxRuns == 2          \* ... and for MaxRuns runs of it

Callers == {1, 2}

-----------------------------------------------------------------------------
(* Values *)

\* float('nan') as a coordinate (pd.to_numeric(errors='coerce') produces it)
NaN == -1000

IsNaN(v) == v = NaN

\* Python's None for an optional numeric argument
NoneOpt == [isNone |-> TRUE, v |-> 0]
Some(n) == [isNone |-> FALSE, v |-> n]

Max2(a, b) == IF a >= b THEN a ELSE b
Min2(a, b) == IF a <= b THEN a ELSE b

\* the (x, y) pairs rows may carry
Palette == {<<0, 0>>, <<0, 8>>, <<1, 1>>, <<20, 10>>, <<5, 8>>, <<NaN, 3>>}

\* a fixed order of the palette, used wherever rows are visited in order
PaletteSeq ==
    <<(<<0, 0>>), (<<0, 8>>), (<<1, 1>>), (<<5, 8>>), (<<20, 10>>), (<<NaN, 3>>)>>

EmptyFrame == [p \in Palette |-> 0]

\* rows of df at the points PaletteSeq[i..]
RECURSIVE RestFrom(_, _)
RestFrom(df, i) ==
    IF i > Len(PaletteSeq) THEN 0 ELSE df[PaletteSeq[i]] + RestFrom(df, i + 1)

\* len(df)
FrameLen(df) == RestFrom(df, 1)

-----------------------------------------------------------------------------
(* _calculate_dynamic_resolution *)

\* int(b * k/10) for a non-negative or negative integer b: truncation toward zero
RoundTimesTenths(b, k) ==
    IF b >= 0 THEN (b * k + 5) \div 10 ELSE -(((-b) * k + 5) \div 10)
IntTimesTenths(b, k) ==
    IF b >= 0 THEN (b * k) \div 10 ELSE -(((-b) * k) \div 10)

_calculate_dynamic_resolution(data_size, base_resolution) ==
    IF data_size < 100 THEN Min2(100, base_resolution * 2)
    ELSE IF data_size < 500 THEN Min2(80, IntTimesTenths(base_resolution, 15))
    ELSE IF data_size < 2000 THEN base_resolution
    ELSE IF data_size < 10000 THEN Max2(30, IntTimesTenths(base_resolution, 8))
    ELSE IF data_size < 50000 THEN Max2(25, IntTimesTenths(base_resolution, 6))
    ELSE Max2(20, IntTimesTenths(base_resolution, 4))

-----------------------------------------------------------------------------
(* Random draws: pandas' DataFrame.sample(n, random_state)                   *)

\* np_random counts the draws made from numpy's process-wide generator (modulo
\* RngMod): a draw with random_state=None moves that generator on
Advanced(s) == (s + 1) % RngMod

\* the random_state argument the sampler passes to every DataFrame.sample call
random_state_none == NoneOpt
random_state == Some(42)

\* Every way to take `need` rows out of `bag`.  sample(n) keeps the rows at the
\* positions permutation(len)[:n]; which coordinate pairs stand at those positions
\* is the order of the frame's rows, which a frame of the model does not hold: each
\* way of taking the rows is the draw of some order.
RECURSIVE DrawFrom(_, _, _, _)
DrawFrom(i, bag, need, acc) ==
    IF i > Len(PaletteSeq) THEN {acc}
    ELSE LET p == PaletteSeq[i]
             lo == Max2(0, need - RestFrom(bag, i + 1))
             hi == Min2(bag[p], need)
         IN  UNION {DrawFrom(i + 1, bag, need - take, [acc EXCEPT ![p] = take]) :
                      take \in lo .. hi}

\* df.sample(n=n, random_state=rs): ValueError for n < 0 or n > len(df).  With a
\* seed the generator is fresh and the rows kept are a function of the frame: the
\* first draw of n rows from a frame may keep any n of its rows, and every later
\* draw of n rows from that frame keeps the same (drawn remembers them).  With
\* None the draw comes from the process-wide generator and moves it on.
\* The outcomes: the rows kept, the generator count and drawn afterwards.
PandasSample(df, n, rs, global, drawn) ==
    IF n < 0 \/ n > FrameLen(df)
    THEN {[exc |-> TRUE, rows |-> EmptyFrame, global |-> global, drawn |-> drawn]}
    ELSE IF rs.isNone
    THEN {[exc |-> FALSE, rows |-> sub, global |-> Advanced(global), drawn |-> drawn] :
             sub \in DrawFrom(1, df, n, EmptyFrame)}
    ELSE LET known == {e \in drawn : e.df = df /\ e.n = n /\ e.seed = rs.v}
             subs == DrawFrom(1, df, n, EmptyFrame)
         IN  IF known # {}
             THEN {[exc |-> FALSE, rows |-> e.rows, global |-> global, drawn |-> drawn] :
                      e \in known}
             ELSE {[exc |-> FALSE, rows |-> sub, global |-> global,
                    drawn |-> IF Cardinality(subs) > 1
                              THEN drawn \cup {[df |-> df, n |-> n, seed |-> rs.v,
                                                rows |-> sub]}
                              ELSE drawn] :
                      sub \in subs}

-----------------------------------------------------------------------------
(* _stratified_spatial_sample *)

ISqrt(q) == CHOOSE r \in 0 .. 400 : r * r <= q /\ q < (r + 1) * (r + 1)

\* max(10, min(50, int(np.sqrt(n_sample / 10))))
NBins(n_sample) == Max2(10, Min2(50, ISqrt(n_sample \div 10)))

Rows(df) == {p \in Palette : df[p] > 0}

\* nanmin / nanmax of coordinate i over the rows of df
ColValues(df, i) == {p[i] : p \in {q \in Rows(df) : ~IsNaN(q[i])}}
ColMin(df, i) == CHOOSE v \in ColValues(df, i) : \A w \in ColValues(df, i) : v <= w
ColMax(df, i) == CHOOSE v \in ColValues(df, i) : \A w \in ColValues(df, i) : v >= w

\* pd.cut(column, bins=k, labels=False) for one value: k equal-width right-closed
\* bins over [mn, mx], the first one extended to hold mn; NaN stays NaN
CutBin(v, mn, mx, k) ==
    IF IsNaN(v) THEN NaN
    ELSE IF mn = mx THEN (k - 1) \div 2
    ELSE IF v = mn THEN 0
    ELSE ((v - mn) * k - 1) \div (mx - mn)

\* df_temp['spatial_bin'] = x_bins * n_bins + y_bins, per palette point (NaN where
\* the frame has no row or a coordinate is NaN)
SpatialBin(df, k) ==
    LET xmn == ColMin(df, 1)
        xmx == ColMax(df, 1)
        ymn == ColMin(df, 2)
        ymx == ColMax(df, 2)
    IN  [p \in Palette |->
            IF df[p] = 0 \/ IsNaN(p[1]) \/ IsNaN(p[2]) THEN NaN
            ELSE CutBin(p[1], xmn, xmx, k) * k + CutBin(p[2], ymn, ymx, k)]

\* bin_counts.items(): the occupied bins (value_counts drops NaN)
OccupiedBins(spatial_bin) == {spatial_bin[p] : p \in Palette} \ {NaN}

\* df_temp[df_temp['spatial_bin'] == bin_id]
BinData(df, spatial_bin, bin_id) ==
    [p \in Palette |-> IF spatial_bin[p] = bin_id THEN df[p] ELSE 0]

\* (count / len(df)) * n_sample is computed in IEEE doubles: the quotient is rounded
\* before it is multiplied, and the product can fall just below a whole number
\* that the exact value reaches.  Of the argument triples this model reaches, that
\* happens for these (15/22 * 22 = 14.999999999999998).
DoubleFallsBelow(count, len, n_sample) == <<count, len, n_sample>> \in {<<15, 22, 22>>}

\* max(1, int((count / len(df)) * n_sample))
BinSampleSizeRounded(count, len, n_sample) ==
    Max2(1, (2 * count * n_sample + len) \div (2 * len))
BinSampleSize(count, len, n_sample) ==
    Max2(1, IF DoubleFallsBelow(count, len, n_sample)
            THEN ((count * n_sample) \div len) - 1
            ELSE (count * n_sample) \div len)

Concat(a, b) == [p \in Palette |-> a[p] + b[p]]

\* the for loop over the occupied bins; acc is pd.concat(sampled_dfs) so far.
\* The outcomes of the loop: one for every combination of the bins' draws.
RECURSIVE SampleBins(_, _, _, _, _, _, _)
SampleBins(df, spatial_bin, bins, n_sample, global, drawn, acc) ==
    IF bins = {} THEN {[rows |-> acc, global |-> global, drawn |-> drawn]}
    ELSE LET bin_id == CHOOSE b \in bins : \A c \in bins : b <= c
             bin_data == BinData(df, spatial_bin, bin_id)
             count == FrameLen(bin_data)
             bin_sample_size == BinSampleSize(count, FrameLen(df), n_sample)
             sampled_bin ==
                 IF count <= bin_sample_size
                 THEN {[exc |-> FALSE, rows |-> bin_data, global |-> global,
                        drawn |-> drawn]}
                 ELSE PandasSample(bin_data, bin_sample_size, random_state, global,
                                   drawn)
         IN  UNION {SampleBins(df, spatial_bin, bins \ {bin_id}, n_sample, d.global,
                               d.drawn, Concat(acc, d.rows)) : d \in sampled_bin}

\* the columns of the caller's frame: with or without the two coordinate columns
Columns(has_cols) == IF has_cols THEN {"x_col", "y_col"} ELSE {"other"}

\* df_temp = df.copy(): df_temp is a new object ("df" is the caller's)
Alias(obj) == obj
Copy(obj) == "df_temp"

\* df_temp['spatial_bin'] = ...: the columns of the caller's object afterwards
ColumnsAfterAssign(df_temp, columns) ==
    IF df_temp = "df" THEN columns \cup {"spatial_bin"} ELSE columns

\* sampled_df.drop('spatial_bin', axis=1): the columns of the frame returned
KeepColumn(columns, c) == columns
DropColumn(columns, c) == columns \ {c}

\* the except branch: df.sample(n=min(n_sample, len(df)), random_state=42), which
\* raises ValueError itself for a negative n
FallbackReraises(df, n_sample, columns, global, drawn) ==
    {[exc |-> TRUE, rows |-> EmptyFrame, path |-> "fallback", global |-> global,
      drawn |-> drawn, df_columns |-> columns, concat |-> EmptyFrame,
      columns |-> columns]}
Fallback(df, n_sample, columns, global, drawn) ==
    {[exc |-> d.exc, rows |-> d.rows, path |-> "fallback", global |-> d.global,
      drawn |-> d.drawn, df_columns |-> columns, concat |-> EmptyFrame,
      columns |-> columns] :
        d \in PandasSample(df, Min2(n_sample, FrameLen(df)), random_state, global,
                           drawn)}

\* lines 59-61: if the concatenation is still over target, sample it down
NoTrim(rows, n_sample, global, drawn) ==
    {[exc |-> FALSE, rows |-> rows, global |-> global, drawn |-> drawn]}
TrimBelowTarget(rows, n_sample, global, drawn) ==
    IF FrameLen(rows) > n_sample
    THEN PandasSample(rows, Max2(0, n_sample - 1), random_state, global, drawn)
    ELSE {[exc |-> FALSE, rows |-> rows, global |-> global, drawn |-> drawn]}
TrimToTarget(rows, n_sample, global, drawn) ==
    IF FrameLen(rows) > n_sample
    THEN PandasSample(rows, n_sample, random_state, global, drawn)
    ELSE {[exc |-> FALSE, rows |-> rows, global |-> global, drawn |-> drawn]}

\* The whole function, as the set of its outcomes: the rows returned, the path
\* taken, whether an exception leaves the function, the process-wide generator
\* count and the draws remembered afterwards.
\* int(np.sqrt(n_sample / 10)) raises ValueError for a negative n_sample (the
\* square root is NaN); df[x_col] raises KeyError without the columns; pd.cut or
\* pd.concat([]) raises ValueError when no row has two finite coordinates.
\* df_columns are the columns of the caller's frame after the call, concat is
\* pd.concat(sampled_dfs) of line 57, columns are the columns of the frame returned.
_stratified_spatial_sample(df, n_sample, has_cols, global, drawn) ==
    IF n_sample < 0 \/ ~has_cols \/ \A p \in Rows(df) : IsNaN(p[1]) \/ IsNaN(p[2])
    THEN Fallback(df, n_sample, Columns(has_cols), global, drawn)
    ELSE LET spatial_bin == SpatialBin(df, NBins(n_sample))
         IN  UNION {
               {[exc |-> FALSE, rows |-> d.rows, path |-> "stratified",
                 global |-> d.global, drawn |-> d.drawn,
                 df_columns |-> ColumnsAfterAssign(Copy("df"), Columns(has_cols)),
                 concat |-> s.rows,
                 columns |-> DropColumn(Columns(has_cols) \cup {"spatial_bin"},
                                        "spatial_bin")] :
                  d \in TrimToTarget(s.rows, n_sample, s.global, s.drawn)} :
               s \in SampleBins(df, spatial_bin, OccupiedBins(spatial_bin), n_sample,
                                global, drawn, EmptyFrame)}

-----------------------------------------------------------------------------
(* model: the pieces of one density estimation *)

RECURSIVE SumSeq(_, _)
SumSeq(s, i) == IF i > Len(s) THEN 0 ELSE s[i] + SumSeq(s, i + 1)

\* sample_pct in tenths (1.0 is 10), lines 108-125
SamplePctInclusive(data_size) ==
    IF data_size <= 1000 THEN 10
    ELSE IF data_size <= 5000 THEN 8
    ELSE IF data_size <= 20000 THEN 5
    ELSE IF data_size <= 50000 THEN 3
    ELSE IF data_size <= 100000 THEN 2
    ELSE 1
SamplePct(data_size) ==
    IF data_size < 1000 THEN 10
    ELSE IF data_size < 5000 THEN 8
    ELSE IF data_size < 20000 THEN 5
    ELSE IF data_size < 50000 THEN 3
    ELSE IF data_size < 100000 THEN 2
    ELSE 1

\* max_sample: data_size, or int(data_size * sample_pct)
MaxSample(data_size) ==
    IF SamplePct(data_size) = 10 THEN data_size
    ELSE (data_size * SamplePct(data_size)) \div 10

\* sampled_df[col].values.min() / .max(): NaN as soon as one value is NaN
ArrMin(df, i) ==
    IF \E p \in Rows(df) : IsNaN(p[i]) THEN NaN ELSE ColMin(df, i)
ArrMax(df, i) ==
    IF \E p \in Rows(df) : IsNaN(p[i]) THEN NaN ELSE ColMax(df, i)

\* min - (max - min) * 0.1 and max + (max - min) * 0.1, in tenths
PadLowNone(mn, mx) == IF IsNaN(mn) THEN NaN ELSE 10 * mn
PadLow(mn, mx) == IF IsNaN(mn) THEN NaN ELSE 10 * mn - (mx - mn)
PadHigh(mn, mx) == IF IsNaN(mn) THEN NaN ELSE 10 * mx + (mx - mn)

\* lines 140-149: the box histogram2d is given, in tenths.  x_min alone decides
\* whether the four bounds come from the data or from the arguments.
Tenths(o) == IF o.isNone THEN NoneOpt ELSE Some(10 * o.v)

BoundsPerBound(sampled_df, box) ==
    [x_min |-> IF box.x_min.isNone
               THEN Some(PadLow(ArrMin(sampled_df, 1), ArrMax(sampled_df, 1)))
               ELSE Tenths(box.x_min),
     x_max |-> IF box.x_max.isNone
               THEN Some(PadHigh(ArrMin(sampled_df, 1), ArrMax(sampled_df, 1)))
               ELSE Tenths(box.x_max),
     y_min |-> IF box.y_min.isNone
               THEN Some(PadLow(ArrMin(sampled_df, 2), ArrMax(sampled_df, 2)))
               ELSE Tenths(box.y_min),
     y_max |-> IF box.y_max.isNone
               THEN Some(PadHigh(ArrMin(sampled_df, 2), ArrMax(sampled_df, 2)))
               ELSE Tenths(box.y_max)]
Bounds(sampled_df, box) ==
    IF box.x_min.isNone
    THEN [x_min |-> Some(PadLow(ArrMin(sampled_df, 1), ArrMax(sampled_df, 1))),
          x_max |-> Some(PadHigh(ArrMin(sampled_df, 1), ArrMax(sampled_df, 1))),
          y_min |-> Some(PadLow(ArrMin(sampled_df, 2), ArrMax(sampled_df, 2))),
          y_max |-> Some(PadHigh(ArrMin(sampled_df, 2), ArrMax(sampled_df, 2)))]
    ELSE [x_min |-> Tenths(box.x_min), x_max |-> Tenths(box.x_max),
          y_min |-> Tenths(box.y_min), y_max |-> Tenths(box.y_max)]

\* numpy's _get_outer_edges on a given range: None, NaN or min > max is an error
RangeBad(lo, hi) ==
    lo.isNone \/ hi.isNone \/ IsNaN(lo.v) \/ IsNaN(hi.v) \/ lo.v > hi.v

\* ... and an empty range is widened by 0.5 on each side
OuterEdges(lo, hi) == IF lo = hi THEN <<lo - 5, hi + 5>> ELSE <<lo, hi>>

\* the bin (1..bins) of value v over the edges linspace(e[1], e[2], bins + 1):
\* half-open bins, the last one closed; 0 for a value that is dropped
CellIndexClipped(v, e, bins) ==
    IF IsNaN(v) THEN 0
    ELSE IF 10 * v <= e[1] THEN 1
    ELSE IF 10 * v >= e[2] THEN bins
    ELSE (((10 * v - e[1]) * bins) \div (e[2] - e[1])) + 1
CellIndex(v, e, bins) ==
    IF IsNaN(v) \/ 10 * v < e[1] \/ 10 * v > e[2] THEN 0
    ELSE IF 10 * v = e[2] THEN bins
    ELSE (((10 * v - e[1]) * bins) \div (e[2] - e[1])) + 1

\* np.histogram2d raises for no bins and for a bad range
Histogram2dRaises(bins, bnd) ==
    bins < 1 \/ RangeBad(bnd.x_min, bnd.x_max) \/ RangeBad(bnd.y_min, bnd.y_max)

\* np.histogram2d(x, y, bins=bins, range=[[x_min, x_max], [y_min, y_max]]):
\* hist[ix][iy] counts the rows whose x falls in bin ix and y in bin iy
Histogram2d(sampled_df, bins, bnd) ==
    IF Histogram2dRaises(bins, bnd)
    THEN [exc |-> TRUE, hist |-> <<>>, x_edges |-> <<0, 0>>, y_edges |-> <<0, 0>>]
    ELSE LET xe == OuterEdges(bnd.x_min.v, bnd.x_max.v)
             ye == OuterEdges(bnd.y_min.v, bnd.y_max.v)
             cell == [i \in 1 .. Len(PaletteSeq) |->
                        <<CellIndex(PaletteSeq[i][1], xe, bins),
                          CellIndex(PaletteSeq[i][2], ye, bins)>>]
         IN  [exc |-> FALSE,
              hist |-> [ix \in 1 .. bins |-> [iy \in 1 .. bins |->
                          SumSeq([i \in 1 .. Len(PaletteSeq) |->
                                    IF cell[i] = <<ix, iy>>
                                    THEN sampled_df[PaletteSeq[i]] ELSE 0], 1)]],
              x_edges |-> xe, y_edges |-> ye]

\* hist.T
NoTranspose(m) == m
Transpose(m) == [r \in 1 .. Len(m) |-> [c \in 1 .. Len(m) |-> m[c][r]]]

\* The Gaussian kernel of scipy.ndimage for sigma (in tenths), as weights
\* round(100 * exp(-d*d / (2 sigma^2))) for d = 0 .. int(4 sigma + 0.5), and 1
\* where that rounds to 0: every weight within the radius is positive.  scipy
\* divides by their sum, so a smoothed cell is in units of 1 / KernelSum^2.
\* An axis with sigma <= 1e-15 is not filtered at all.
KernelRadiusFour(sigma) ==
    IF sigma <= 0 THEN <<1>> ELSE <<100, 80, 41, 14, 3>>
KernelSharpening(sigma) ==
    IF sigma <= 0 THEN <<1>> ELSE <<100, -14, 0>>
Kernel(sigma) ==
    IF sigma <= 0 THEN <<1>>
    ELSE IF sigma = 5 THEN <<100, 14, 1>>
    ELSE <<100, 80, 41, 14, 3, 1, 1>>

Abs(a) == IF a < 0 THEN -a ELSE a

Weight(w, d) == IF Abs(d) + 1 > Len(w) THEN 0 ELSE w[Abs(d) + 1]

\* ndimage.gaussian_filter(m, sigma, mode='constant'): one pass along each axis,
\* cells beyond the border count as 0.  A cell's sum runs over the cells within
\* the kernel's radius that lie inside the array.
GaussianFilter(m, sigma) ==
    LET n == Len(m)
        w == Kernel(sigma)
        lo(i) == Max2(1, i - (Len(w) - 1))
        hi(i) == Min2(n, i + (Len(w) - 1))
        pass0 == [r \in 1 .. n |-> [c \in 1 .. n |->
                    SumSeq([j \in 1 .. (hi(r) - lo(r) + 1) |->
                              Weight(w, r - (lo(r) + j - 1)) * m[lo(r) + j - 1][c]], 1)]]
    IN  [r \in 1 .. n |-> [c \in 1 .. n |->
            SumSeq([j \in 1 .. (hi(c) - lo(c) + 1) |->
                      Weight(w, c - (lo(c) + j - 1)) * pass0[r][lo(c) + j - 1]], 1)]]

\* a grid of rationals: cell value num[r][c] / den (in kernel units)
Grid(num) == [num |-> num, den |-> 1]

\* density / sample_pct, cell by cell: dividing by pct/10
DivideBy(g, pct) ==
    [num |-> [r \in 1 .. Len(g.num) |-> [c \in 1 .. Len(g.num) |-> g.num[r][c] * 10]],
     den |-> g.den * pct]

\* lines 162-163
CorrectByMultiplying(density, sample_pct) ==
    IF sample_pct < 10
    THEN [num |-> [r \in 1 .. Len(density.num) |-> [c \in 1 .. Len(density.num) |->
                     density.num[r][c] * sample_pct]],
          den |-> density.den * 10]
    ELSE density
Correct(density, sample_pct) ==
    IF sample_pct < 10 THEN DivideBy(density, sample_pct) ELSE density

\* (edges[:-1] + edges[1:]) / 2 for edges = linspace(e[1], e[2], bins + 1):
\* centre i as a numerator over 2 * bins (in tenths)
CentersOfEdges(e, bins) ==
    [i \in 1 .. (bins + 1) |-> 2 * bins * e[1] + (2 * i - 2) * (e[2] - e[1])]
Centers(e, bins) == [i \in 1 .. bins |-> 2 * bins * e[1] + (2 * i - 1) * (e[2] - e[1])]

\* np.meshgrid(x_centers, y_centers): xi[r][c] = x_centers[c], yi[r][c] = y_centers[r]
MeshX(x_centers, y_centers) ==
    [r \in 1 .. Len(y_centers) |-> [c \in 1 .. Len(x_centers) |-> x_centers[c]]]
MeshY(x_centers, y_centers) ==
    [r \in 1 .. Len(y_centers) |-> [c \in 1 .. Len(x_centers) |-> y_centers[r]]]

\* ndarray.ravel() of a square array: row after row
Ravel(m) ==
    [i \in 1 .. Len(m) * Len(m) |-> m[((i - 1) \div Len(m)) + 1][((i - 1) % Len(m)) + 1]]

\* the dict of lines 173-180
Result(x_edges, y_edges, bins, density) ==
    LET xi == MeshX(Centers(x_edges, bins), Centers(y_edges, bins))
        yi == MeshY(Centers(x_edges, bins), Centers(y_edges, bins))
    IN  [isNone |-> FALSE, x |-> xi, y |-> yi, density |-> density,
         x_flat |-> Ravel(xi), y_flat |-> Ravel(yi),
         density_flat |-> [num |-> Ravel(density.num), den |-> density.den]]

\* line 96: len(df) < 10
InsufficientOffByOne(df) == FrameLen(df) <= 10
Insufficient(df) == FrameLen(df) < 10

\* the statements inside the try block of lines 101-181
TryCoversHistogramOnly(pc) == pc \in {"hist", "smooth"}
TryCovers(pc) ==
    pc \in {"plan", "sample", "bounds", "hist", "smooth", "correct", "mesh"}

-----------------------------------------------------------------------------
(* Call frames *)

NoBox == [x_min |-> NoneOpt, x_max |-> NoneOpt, y_min |-> NoneOpt, y_max |-> NoneOpt]

NoGrid == [num |-> <<>>, den |-> 1]

NoRet == [isNone |-> TRUE, x |-> <<>>, y |-> <<>>, density |-> NoGrid,
          x_flat |-> <<>>, y_flat |-> <<>>, density_flat |-> NoGrid]

IdleFrame ==
    [op |-> "none", pc |-> "idle",
     \* arguments
     df |-> EmptyFrame, df_columns |-> Columns(TRUE), has_cols |-> TRUE, n_sample |-> 0,
     base_resolution |-> 0, sigma |-> 0, box |-> NoBox,
     \* locals of model
     data_size |-> 0, dynamic_resolution |-> 0, sample_pct |-> 10, max_sample |-> 0,
     sampled_df |-> EmptyFrame, path |-> "none", concat |-> EmptyFrame,
     sampled_columns |-> Columns(TRUE), bnd |-> NoBox,
     hist |-> <<>>, x_edges |-> <<0, 0>>, y_edges |-> <<0, 0>>,
     smoothed |-> NoGrid, density |-> NoGrid,
     \* outcome
     resolution |-> 0, ret |-> NoRet, raised |-> FALSE]

\* the tier boundaries of both tables and their neighbours
DataSizes ==
    {0, 1, 9, 10, 99, 100, 499, 500, 999, 1000, 1999, 2000, 4999, 5000,
     9999, 10000, 19999, 20000, 49999, 50000, 99999, 100000}

\* The processes that run the pipeline: main.py, started by a scheduler, and the
\* request handler trigger_etl of app.py.  Nothing keeps the run of one from
\* overlapping the run of the other.
Runners == {"main", "app"}

\* the pipeline before its first run: no dict returned yet
NoResult == [status |-> "none", density_calculated |-> FALSE, data_exported |-> FALSE]

\* what a run remembers of the run that ended last before it started (nothing in
\* the code: the model keeps it to relate consecutive runs)
NoPrev == [no_result |-> FALSE, gate_raised |-> FALSE, gate_stores |-> 0]

NoRows == [calculated_at |-> 0, posts_count |-> 0, rows |-> 0]

\* the locals of one run, and what the model notes of its course
IdleRun ==
    [pc |-> "idle", early_start |-> FALSE, prev |-> NoPrev,
     \* should_calculate_density
     reached_gate |-> FALSE, gate_stores |-> 0, gate_raised |-> FALSE,
     last_calculation |-> NoneOpt, time_since_last |-> NoneOpt,
     should_calculate |-> FALSE,
     \* calculate_and_load_density
     attempted |-> FALSE, queried |-> FALSE, recent_posts_df |-> EmptyFrame,
     model_called |-> FALSE, model_none |-> FALSE, fields_read |-> FALSE,
     density_df |-> NoRows, appended |-> FALSE, returned |-> "none",
     \* run_etl and its caller
     density_calculated |-> FALSE, raised_in |-> "none", result |-> NoResult,
     reached_main |-> FALSE, exit_code |-> -1, http_status |-> -1]

\* clock: the wall clock in minutes; density_table: the row sets of the density
\* table, in the order of their arrival; runs, stores: how many runs were started
\* and row sets appended so far
EtlInit ==
    [clock |-> 0, density_table |-> <<>>, runs |-> 0, stores |-> 0,
     run |-> [w \in Runners |-> IdleRun], last |-> NoPrev]

Init ==
    /\ calls = [t \in Callers |-> IdleFrame]
    /\ np_random \in {0}
    /\ seeded_draws = {}
    /\ etl = EtlInit

\* a direct call of _calculate_dynamic_resolution(n, b), whole
CallResolution(t, n, b) ==
    /\ calls[t].pc = "idle"
    /\ calls' = [calls EXCEPT ![t] =
                    [IdleFrame EXCEPT !.op = "resolution", !.pc = "done",
                                      !.data_size = n, !.base_resolution = b,
                                      !.resolution = _calculate_dynamic_resolution(n, b)]]
    /\ UNCHANGED <<np_random, seeded_draws>>

\* The draws remembered for the frame df, and seeded_draws once the draws on df
\* are `drawn`.  Two callers given the same frame hold the same rows in the same
\* order; the draws on one frame say nothing about another frame's.
DrawsOn(df) == {e.draw : e \in {d \in seeded_draws : d.frame = df}}
Remembered(df, drawn) ==
    {d \in seeded_draws : d.frame # df} \cup {[frame |-> df, draw |-> e] : e \in drawn}

\* frames for direct calls of the sampler: up to MaxRows rows at each palette point
\* but (0, 8), which only the 1200-row frames of model use
SampleFrames ==
    {df \in [Palette -> 0 .. MaxRows] : df[<<0, 8>>] = 0}
    \cup {[p \in Palette |-> IF p = <<0, 0>> THEN 15 ELSE IF p = <<20, 10>> THEN 7 ELSE 0]}

SampleTargets == (-1 .. MaxTarget) \cup {22}

\* a direct call of _stratified_spatial_sample(df, n_sample, x_col, y_col), whole
CallSample(t, df, n_sample, has_cols) ==
    /\ calls[t].pc = "idle"
    /\ \E r \in _stratified_spatial_sample(df, n_sample, has_cols, np_random,
                                           DrawsOn(df)) :
           /\ calls' = [calls EXCEPT ![t] =
                           [IdleFrame EXCEPT !.op = "sample",
                                             !.pc = IF r.exc THEN "raised" ELSE "done",
                                             !.df = df, !.n_sample = n_sample,
                                             !.has_cols = has_cols,
                                             !.df_columns = r.df_columns,
                                             !.sampled_df = r.rows, !.path = r.path,
                                             !.concat = r.concat,
                                             !.sampled_columns = r.columns,
                                             !.raised = r.exc]]
           /\ np_random' = r.global
           /\ seeded_draws' = Remembered(df, r.drawn)

\* frames given to model: rows per palette point.  There are fewer than 2000 rows
\* in all, so that the grid stays small, and the counts are such that the double
\* (count / len(df)) * n_sample truncates to the exact quotient for every bin.
\* A frame of 1000 rows or more has them at one point but for a few, so that a
\* draw has few outcomes: 995 rows at (1, 1), which shares a sampler bin with
\* (0, 0) when (20, 10) is there, or 995 rows without a finite x.  The sample of
\* 9 rows at (0, 0), 995 at (1, 1) and 1 at (20, 10) can lose the smallest x.
\* One more frame has 1000 rows without a finite x.
ModelFrames ==
    {[p \in Palette |->
        CASE p = <<0, 0>> -> a [] p = <<1, 1>> -> a2 [] p = <<20, 10>> -> b
          [] p = <<5, 8>> -> c [] p = <<NaN, 3>> -> d [] OTHER -> 0] :
     a \in {0, 5, 9, 10}, a2 \in {0, 995}, b \in {0, 1}, c \in {0, 3}, d \in {0, 1}}
    \cup {[p \in Palette |->
              CASE p = <<0, 0>> -> a [] p = <<20, 10>> -> b [] p = <<5, 8>> -> c
                [] p = <<NaN, 3>> -> 995 [] OTHER -> 0] :
            a \in {0, 5, 9, 10}, b \in {0, 1}, c \in {0, 3}}
    \cup {[p \in Palette |-> IF IsNaN(p[1]) THEN 1000 ELSE 0]}

Box(x0, x1, y0, y1) == [x_min |-> x0, x_max |-> x1, y_min |-> y0, y_max |-> y1]

\* boxes given to model: none, all points inside or on the border, some points
\* outside, empty in x, min above max, and boxes given in part (x_min alone,
\* all but y_min, all but x_min)
Boxes ==
    {NoBox,
     Box(Some(0), Some(20), Some(0), Some(10)),
     Box(Some(1), Some(5), Some(1), Some(9)),
     Box(Some(2), Some(4), Some(2), Some(4)),
     Box(Some(0), Some(0), Some(0), Some(10)),
     Box(Some(5), Some(1), Some(0), Some(10)),
     Box(Some(0), NoneOpt, NoneOpt, NoneOpt),
     Box(Some(0), Some(20), NoneOpt, Some(10)),
     Box(NoneOpt, Some(5), Some(1), Some(9))}

Sigmas == {0, 15}

\* model(df, x_col, y_col, base_resolution, sigma, x_min, x_max, y_min, y_max) is
\* entered; has_cols says whether df has the columns x_col and y_col
CallModel(t, df, has_cols, base_resolution, sigma, box) ==
    /\ calls[t].pc = "idle"
    /\ calls' = [calls EXCEPT ![t] =
                    [IdleFrame EXCEPT !.op = "model", !.pc = "guard", !.df = df,
                                      !.has_cols = has_cols,
                                      !.df_columns = Columns(has_cols),
                                      !.base_resolution = base_resolution,
                                      !.sigma = sigma, !.box = box]]
    /\ UNCHANGED <<np_random, seeded_draws>>

\* lines 96-99: too few rows, return None before anything else
Guard(t) ==
    /\ calls[t].pc = "guard"
    /\ calls' = [calls EXCEPT ![t].pc = IF Insufficient(calls[t].df) THEN "done" ELSE "plan"]
    /\ UNCHANGED <<np_random, seeded_draws>>

\* where an exception raised at pc goes: the except clause, or the caller
Raise(t) ==
    calls' = [calls EXCEPT ![t].pc = IF TryCovers(calls[t].pc) THEN "except" ELSE "raised",
                           ![t].raised = ~TryCovers(calls[t].pc)]

\* lines 103-125: resolution and sampling fraction, both from len(df)
Plan(t) ==
    /\ calls[t].pc = "plan"
    /\ LET n == FrameLen(calls[t].df)
       IN  calls' = [calls EXCEPT
                ![t].pc = "sample",
                ![t].data_size = n,
                ![t].dynamic_resolution =
                    _calculate_dynamic_resolution(n, calls[t].base_resolution),
                ![t].sample_pct = SamplePct(n),
                ![t].max_sample = MaxSample(n)]
    /\ UNCHANGED <<np_random, seeded_draws>>

\* lines 131-134
Sample(t) ==
    /\ calls[t].pc = "sample"
    /\ IF calls[t].sample_pct < 10
       THEN \E r \in _stratified_spatial_sample(calls[t].df, calls[t].max_sample,
                                                 calls[t].has_cols, np_random,
                                                 DrawsOn(calls[t].df)) :
                /\ IF r.exc THEN Raise(t)
                   ELSE calls' = [calls EXCEPT ![t].pc = "bounds",
                                               ![t].df_columns = r.df_columns,
                                               ![t].n_sample = calls[t].max_sample,
                                               ![t].sampled_df = r.rows,
                                               ![t].concat = r.concat,
                                               ![t].sampled_columns = r.columns,
                                               ![t].path = r.path]
                /\ np_random' = r.global
                /\ seeded_draws' = Remembered(calls[t].df, r.drawn)
       ELSE /\ calls' = [calls EXCEPT ![t].pc = "bounds", ![t].sampled_df = calls[t].df,
                                      ![t].sampled_columns = calls[t].df_columns]
            /\ UNCHANGED <<np_random, seeded_draws>>

\* lines 136-149: sampled_df[x_col] raises KeyError without the column, and min()
\* of no rows raises ValueError
BoundsStep(t) ==
    /\ calls[t].pc = "bounds"
    /\ IF ~calls[t].has_cols
          \/ (calls[t].box.x_min.isNone /\ Rows(calls[t].sampled_df) = {})
       THEN Raise(t)
       ELSE calls' = [calls EXCEPT ![t].pc = "hist",
                                   ![t].bnd = Bounds(calls[t].sampled_df, calls[t].box)]
    /\ UNCHANGED <<np_random, seeded_draws>>

\* lines 152-156
HistogramOfFrame(t) ==
    /\ calls[t].pc = "hist"
    /\ LET h == Histogram2d(calls[t].df, calls[t].dynamic_resolution, calls[t].bnd)
       IN  IF h.exc THEN Raise(t)
           ELSE calls' = [calls EXCEPT ![t].pc = "smooth", ![t].hist = h.hist,
                                       ![t].x_edges = h.x_edges,
                                       ![t].y_edges = h.y_edges]
    /\ UNCHANGED <<np_random, seeded_draws>>
Histogram(t) ==
    /\ calls[t].pc = "hist"
    /\ LET h == Histogram2d(calls[t].sampled_df, calls[t].dynamic_resolution, calls[t].bnd)
       IN  IF h.exc THEN Raise(t)
           ELSE calls' = [calls EXCEPT ![t].pc = "smooth", ![t].hist = h.hist,
                                       ![t].x_edges = h.x_edges,
                                       ![t].y_edges = h.y_edges]
    /\ UNCHANGED <<np_random, seeded_draws>>

\* line 159
Smooth(t) ==
    /\ calls[t].pc = "smooth"
    /\ LET g == Grid(GaussianFilter(Transpose(calls[t].hist), calls[t].sigma))
       IN  calls' = [calls EXCEPT ![t].pc = "correct", ![t].smoothed = g,
                                  ![t].density = g]
    /\ UNCHANGED <<np_random, seeded_draws>>

\* lines 162-163
CorrectStep(t) ==
    /\ calls[t].pc = "correct"
    /\ calls' = [calls EXCEPT ![t].pc = "mesh",
                              ![t].density = Correct(calls[t].density, calls[t].sample_pct)]
    /\ UNCHANGED <<np_random, seeded_draws>>

\* lines 166-180
Return(t) ==
    /\ calls[t].pc = "mesh"
    /\ calls' = [calls EXCEPT ![t].pc = "done",
                              ![t].ret = Result(calls[t].x_edges, calls[t].y_edges,
                                                calls[t].dynamic_resolution,
                                                calls[t].density)]
    /\ UNCHANGED <<np_random, seeded_draws>>

\* lines 182-184: print the error, return None
Except(t) ==
    /\ calls[t].pc = "except"
    /\ calls' = [calls EXCEPT ![t].pc = "done", ![t].ret = NoRet]
    /\ UNCHANGED <<np_random, seeded_draws>>

\* the caller drops the finished call's frames: nothing of a call outlives it.
\* A frame no caller holds any more is gone, and the order of its rows with it.
Discard(t) ==
    /\ calls[t].pc \in {"done", "raised"}
    /\ calls' = [calls EXCEPT ![t] = IdleFrame]
    /\ seeded_draws' = {d \in seeded_draws :
                            \E u \in Callers \ {t} :
                                calls[u].pc # "idle" /\ calls[u].df = d.frame}
    /\ UNCHANGED np_random

\* what caller t may do next
Step(t) ==
    \/ /\ calls[t].pc = "idle"
       /\ \E n \in DataSizes, b \in 1 .. MaxBase : CallResolution(t, n, b)
    \/ /\ calls[t].pc = "idle"
       /\ \E df \in SampleFrames, m \in SampleTargets, c \in BOOLEAN :
              CallSample(t, df, m, c)
    \/ /\ calls[t].pc = "idle"
       /\ \/ \E df \in ModelFrames, b \in 0 .. MaxB, sg \in Sigmas, box \in Boxes :
                CallModel(t, df, TRUE, b, sg, box)
          \/ \E df \in ModelFrames : CallModel(t, df, FALSE, 1, 15, NoBox)
    \/ Guard(t)
    \/ Plan(t)
    \/ Sample(t)
    \/ BoundsStep(t)
    \/ Histogram(t)
    \/ Smooth(t)
    \/ CorrectStep(t)
    \/ Return(t)
    \/ Except(t)
    \/ Discard(t)

Next == Step(1) /\ UNCHANGED etl

Spec == Init /\ [][Next]_vars

-----------------------------------------------------------------------------
(* Two callers running model side by side *)

\* a frame whose first two points share a sampler bin (the draw decides how many
\* of each are kept), and frames too small to be sampled
IdemFrames ==
    {[p \in Palette |->
        CASE p = <<0, 0>> -> f[1] [] p = <<1, 1>> -> f[2] [] p = <<20, 10>> -> 1
          [] OTHER -> 0] :
     f \in {<<9, 995>>, <<9, 0>>, <<10, 0>>}}

StepIdem(t) ==
    \/ /\ calls[t].pc = "idle"
       /\ \E df \in IdemFrames, c \in BOOLEAN : CallModel(t, df, c, 2, 15, NoBox)
    \/ Guard(t)
    \/ Plan(t)
    \/ Sample(t)
    \/ BoundsStep(t)
    \/ Histogram(t)
    \/ Smooth(t)
    \/ CorrectStep(t)
    \/ Return(t)
    \/ Except(t)
    \/ Discard(t)

NextIdem == (\E t \in Callers : StepIdem(t)) /\ UNCHANGED etl

SpecIdem == Init /\ [][NextIdem]_vars

-----------------------------------------------------------------------------
(* model on frames of every sampling tier *)

\* the sizes on both sides of each boundary of the sampling table
TierSizes == {999, 1000, 4999, 5000, 19999, 20000, 49999, 50000, 99999, 100000}

\* a frame of n rows: all but one at (0, 0), one at (20, 10)
TierFrames ==
    {[p \in Palette |->
        CASE p = <<0, 0>> -> n - 1 [] p = <<20, 10>> -> 1 [] OTHER -> 0] :
     n \in TierSizes}

StepTiers(t) ==
    \/ /\ calls[t].pc = "idle"
       /\ \E df \in TierFrames, c \in BOOLEAN : CallModel(t, df, c, 1, 15, NoBox)
    \/ Guard(t)
    \/ Plan(t)
    \/ Sample(t)
    \/ BoundsStep(t)
    \/ Histogram(t)
    \/ Smooth(t)
    \/ CorrectStep(t)
    \/ Return(t)
    \/ Except(t)
    \/ Discard(t)

NextTiers == StepTiers(1) /\ UNCHANGED etl

SpecTiers == Init /\ [][NextTiers]_vars

-----------------------------------------------------------------------------
(* model on 1200 rows inside [0, 10] x [0, 10], base_resolution 50 *)

\* 1200 rows over the palette points inside [0, 10] x [0, 10]: spread over
\* (0, 0), (1, 1) and (5, 8); all at one point; at two points with the same x
\* or the same y
ScenarioFrames ==
    {[p \in Palette |->
        CASE p = <<0, 0>> -> a [] p = <<1, 1>> -> a2 [] p = <<5, 8>> -> 1200 - a - a2
          [] OTHER -> 0] :
     a \in {200, 201, 600}, a2 \in {0, 301}}
    \cup {[p \in Palette |-> IF p = q THEN 1200 ELSE 0] : q \in {<<0, 0>>, <<5, 8>>}}
    \cup {[p \in Palette |-> IF p \in {<<0, 8>>, q} THEN 600 ELSE 0] :
             q \in {<<0, 0>>, <<5, 8>>}}

StepScenario(t) ==
    \/ /\ calls[t].pc = "idle"
       /\ \E df \in ScenarioFrames, c \in BOOLEAN : CallModel(t, df, c, 50, 15, NoBox)
    \/ Guard(t)
    \/ Plan(t)
    \/ Sample(t)
    \/ BoundsStep(t)
    \/ Histogram(t)
    \/ Smooth(t)
    \/ CorrectStep(t)
    \/ Return(t)
    \/ Except(t)
    \/ Discard(t)

NextScenario == StepScenario(1) /\ UNCHANGED etl

SpecScenario == Init /\ [][NextScenario]_vars

-----------------------------------------------------------------------------
(* The pipeline of ETL/etl.py, run by main.py and by app.py, and the         *)
(* clearing of its tables by clear_bigquery.py.                               *)
(* Time is the wall clock in minutes.  The density table is the sequence of  *)
(* appended row sets, each with its calculated_at, posts_count and number of *)
(* rows.  The Bluesky and BigQuery clients and the encoder are not part of   *)
(* the repository's sources: what they return or raise is chosen freely.     *)

\* self.density_interval_minutes
density_interval_minutes == 30

\* "Runs every 10 minutes": the step by which the wall clock advances
TickMinutes == 10

\* the least number of recent posts calculate_and_load_density goes on with
MinRecentPosts == 10

\* base_resolution=50 of the call of density.model
EtlBaseResolution == 50

\* SELECT MAX(calculated_at): NULL for a table without rows
MaxCalculatedAt(density_table) ==
    IF density_table = <<>> THEN NoneOpt
    ELSE Some(CHOOSE m \in {density_table[i].calculated_at : i \in DOMAIN density_table} :
                \A i \in DOMAIN density_table : density_table[i].calculated_at <= m)

\* time_since_last > timedelta(minutes=self.density_interval_minutes)
TimeGateInclusive(last_calculation, now) ==
    now - last_calculation >= density_interval_minutes
TimeGate(last_calculation, now) ==
    now - last_calculation > density_interval_minutes

\* should_calculate_density, from the answer of its query (the latest
\* calculated_at, if the query did not raise) and the clock read after it: True
\* when the query raised, when there is no previous calculation, and when the
\* last one is old enough
should_calculate_density(query_raised, last_calculation, now) ==
    IF query_raised THEN TRUE
    ELSE IF last_calculation.isNone THEN TRUE
    ELSE TimeGate(last_calculation.v, now)

\* what density.model(recent_posts_df, 'UMAP1', 'UMAP2', base_resolution, ...)
\* can return, without the grid's cells: None, or a result of resolution x
\* resolution cells.  The steps are those of Guard, Plan, Sample, BoundsStep and Histogram;
\* the smoothing that follows raises nothing and sigma changes no shape.
ModelOutcome(df, has_cols, base_resolution, box, global, drawn) ==
    IF Insufficient(df) THEN {[isNone |-> TRUE, resolution |-> 0]}
    ELSE LET n == FrameLen(df)
             resolution == _calculate_dynamic_resolution(n, base_resolution)
             sampled ==
                 IF SamplePct(n) < 10
                 THEN {[exc |-> s.exc, rows |-> s.rows] :
                          s \in _stratified_spatial_sample(df, MaxSample(n), has_cols,
                                                           global, drawn)}
                 ELSE {[exc |-> FALSE, rows |-> df]}
         IN  {IF s.exc \/ ~has_cols \/ (box.x_min.isNone /\ Rows(s.rows) = {})
              THEN [isNone |-> TRUE, resolution |-> 0]
              ELSE IF Histogram2dRaises(resolution, Bounds(s.rows, box))
                   THEN [isNone |-> TRUE, resolution |-> 0]
                   ELSE [isNone |-> FALSE, resolution |-> resolution] :
                 s \in sampled}

\* line 208: len(recent_posts_df) < 10
NotEnoughRecent(recent_posts_df) == FrameLen(recent_posts_df) < MinRecentPosts

\* line 230: density_result is None
DensityResultUnchecked(density_result) == FALSE
DensityResultIsNone(density_result) == density_result.isNone

\* lines 235-241: one row per grid cell, all with the same calculated_at and
\* posts_count
DensityRows(density_result, now, recent_posts_df) ==
    [calculated_at |-> now, posts_count |-> FrameLen(recent_posts_df),
     rows |-> density_result.resolution * density_result.resolution]

\* lines 374-380 and 350: the dict run_etl returns without an exception
RunResultNeedsDensity(early, density_calculated, data_exported) ==
    [status |-> IF early \/ density_calculated THEN "success" ELSE "error",
     density_calculated |-> density_calculated, data_exported |-> data_exported]
RunResult(early, density_calculated, data_exported) ==
    [status |-> "success", density_calculated |-> density_calculated,
     data_exported |-> data_exported]

\* lines 382-388: the dict run_etl returns from its except clause
ErrorResult == [status |-> "error", density_calculated |-> FALSE, data_exported |-> FALSE]

\* main.py lines 19-33: the exit code, from the dict returned or from the
\* exception that reached main
ExitCodeIgnoresStatus(result, reached_main) == IF reached_main THEN 1 ELSE 0
ExitCode(result, reached_main) ==
    IF reached_main THEN 1
    ELSE IF result.status = "error" THEN 1 ELSE 0

\* app.py lines 14-30: the response of trigger_etl, 200 with the dict or 500 when
\* an exception reached it
trigger_etl(result, reached_main) == IF reached_main THEN 500 ELSE 200

\* what BigQuery may return for the recent posts: 9 rows, 10 rows, and 10 rows
\* whose UMAP1 is not a number
RecentFrames ==
    {[p \in Palette |-> CASE p = <<0, 0>> -> 9 [] p = <<20, 10>> -> a [] OTHER -> 0] :
        a \in {0, 1}}
    \cup {[p \in Palette |-> IF IsNaN(p[1]) THEN 10 ELSE 0]}

\* the steps of one run, in the order of run_etl
Stages ==
    {"initialize_clients", "extract_posts", "transform_posts", "load_posts",
     "calculate_and_load_density"}

Run(w) == etl.run[w]

\* The wall clock advances, between runs or within them: time passes wherever a
\* run waits.  A run reads the clock in should_calculate_density (line 150) and
\* in calculate_and_load_density (line 239); the rows built at line 239 wait in
\* bigquery_client.append (lines 248-253), so they can be older than the clock
\* when they land, and another run or clear_bigquery.py can act in between.
Tick ==
    /\ etl.clock + TickMinutes <= MaxClock
    /\ etl' = [etl EXCEPT !.clock = etl.clock + TickMinutes]

\* the run starts at or before t + 30 minutes, t the latest calculated_at of the
\* table at that time (noted for what is said of such runs; nothing in the code)
EarlyStart(density_table, now) ==
    /\ density_table # <<>>
    /\ now <= MaxCalculatedAt(density_table).v + density_interval_minutes

\* main.py line 21, app.py line 23 and etl.py line 396: ATProtoETL() reads the
\* environment outside any try of etl.py, so a missing variable reaches the caller
StartRun(w) ==
    /\ Run(w).pc \in {"idle", "exited"}
    /\ etl.runs < MaxRuns
    /\ \E ok \in BOOLEAN :
          etl' = [etl EXCEPT
                    !.runs = etl.runs + 1,
                    !.run[w] = [IdleRun EXCEPT
                                  !.pc = IF ok THEN "init" ELSE "main",
                                  !.reached_main = ~ok,
                                  !.early_start = EarlyStart(etl.density_table,
                                                             etl.clock),
                                  !.prev = etl.last]]

\* an exception leaves the stage the run is in for the except clause of run_etl
RaiseIn(w, stage) ==
    etl' = [etl EXCEPT !.run[w].pc = "except", !.run[w].raised_in = stage]

\* lines 345, 49-60
InitializeClients(w) ==
    /\ Run(w).pc = "init"
    /\ \E ok \in BOOLEAN :
          IF ok THEN etl' = [etl EXCEPT !.run[w].pc = "extract"]
          ELSE RaiseIn(w, "initialize_clients")

\* lines 348-350, 62-76
ExtractPosts(w) ==
    /\ Run(w).pc = "extract"
    /\ \E posts \in {"some", "none", "raise"} :
          CASE posts = "some" -> etl' = [etl EXCEPT !.run[w].pc = "transform"]
            [] posts = "none" ->
                  etl' = [etl EXCEPT !.run[w].pc = "main",
                                     !.run[w].result = RunResult(TRUE, FALSE, FALSE)]
            [] OTHER -> RaiseIn(w, "extract_posts")

\* lines 353, 78-120: a failure of the encoder is logged there and the posts go on
\* without UMAP columns; a failure before the inner try is not caught there
TransformPosts(w) ==
    /\ Run(w).pc = "transform"
    /\ \E out \in {"embedded", "encoder_failed", "raise"} :
          IF out = "raise" THEN RaiseIn(w, "transform_posts")
          ELSE etl' = [etl EXCEPT !.run[w].pc = "load"]

\* lines 356, 122-133
LoadPosts(w) ==
    /\ Run(w).pc = "load"
    /\ \E ok \in BOOLEAN :
          IF ok THEN etl' = [etl EXCEPT !.run[w].pc = "gate"]
          ELSE RaiseIn(w, "load_posts")

\* lines 137-143: the gate query is sent and answered, or raises
GateQuery(w) ==
    /\ Run(w).pc = "gate"
    /\ \E query_raised \in BOOLEAN :
          etl' = [etl EXCEPT
                    !.run[w].pc = "decide",
                    !.run[w].gate_stores = etl.stores,
                    !.run[w].gate_raised = query_raised,
                    !.run[w].last_calculation =
                        IF query_raised THEN NoneOpt
                        ELSE MaxCalculatedAt(etl.density_table)]

\* lines 145-162 and 359-363: the answer is compared with the clock as it is
\* now.  Of the locals of should_calculate_density the model keeps
\* time_since_last, where there is one.
GateDecide(w) ==
    /\ Run(w).pc = "decide"
    /\ LET last_calculation == Run(w).last_calculation
           go == should_calculate_density(Run(w).gate_raised, last_calculation,
                                          etl.clock)
       IN  etl' = [etl EXCEPT
                     !.run[w].pc = IF go THEN "query" ELSE "export",
                     !.run[w].reached_gate = TRUE,
                     !.run[w].last_calculation = NoneOpt,
                     !.run[w].time_since_last =
                         IF last_calculation.isNone THEN NoneOpt
                         ELSE Some(etl.clock - last_calculation.v),
                     !.run[w].should_calculate = go]

Gate(w) == GateQuery(w) \/ GateDecide(w)

\* lines 196-210: the query for the recent posts, and the test of their number
QueryRecentPosts(w) ==
    /\ Run(w).pc = "query"
    /\ \/ etl' = [etl EXCEPT !.run[w].pc = "except",
                             !.run[w].raised_in = "calculate_and_load_density",
                             !.run[w].attempted = TRUE, !.run[w].returned = "raised"]
       \/ \E recent_posts_df \in RecentFrames :
             etl' = [etl EXCEPT
                       !.run[w].pc = IF NotEnoughRecent(recent_posts_df)
                                     THEN "export" ELSE "model",
                       !.run[w].attempted = TRUE, !.run[w].queried = TRUE,
                       !.run[w].recent_posts_df = recent_posts_df,
                       !.run[w].returned = IF NotEnoughRecent(recent_posts_df)
                                           THEN "False" ELSE "none"]

\* lines 212-245: model is called, its result tested, and the rows to store are
\* built with the time as it is now
CalculateDensity(w) ==
    /\ Run(w).pc = "model"
    /\ \E density_result \in
            ModelOutcome(Run(w).recent_posts_df, TRUE, EtlBaseResolution, NoBox,
                         np_random, {}) :
          IF DensityResultIsNone(density_result)
          THEN etl' = [etl EXCEPT !.run[w].pc = "export",
                                  !.run[w].model_called = TRUE,
                                  !.run[w].model_none = density_result.isNone,
                                  !.run[w].returned = "False"]
          ELSE etl' = [etl EXCEPT !.run[w].pc = "append",
                                  !.run[w].model_called = TRUE,
                                  !.run[w].model_none = density_result.isNone,
                                  !.run[w].fields_read = TRUE,
                                  !.run[w].density_df =
                                      DensityRows(density_result, etl.clock,
                                                  Run(w).recent_posts_df)]

\* lines 247-257: the rows are appended to the density table, or the append raises
AppendDensity(w) ==
    /\ Run(w).pc = "append"
    /\ \/ etl' = [etl EXCEPT !.run[w].pc = "export",
                             !.run[w].density_df = NoRows,
                             !.run[w].appended = TRUE,
                             !.run[w].returned = "True",
                             !.run[w].density_calculated = TRUE,
                             !.stores = etl.stores + 1,
                             !.density_table = Append(etl.density_table,
                                                      Run(w).density_df)]
       \/ etl' = [etl EXCEPT !.run[w].pc = "except",
                             !.run[w].density_df = NoRows,
                             !.run[w].raised_in = "calculate_and_load_density",
                             !.run[w].returned = "raised"]

\* lines 361, 191-257
CalculateAndLoadDensity(w) ==
    QueryRecentPosts(w) \/ CalculateDensity(w) \/ AppendDensity(w)

\* lines 366-380, 164-189, 259-311: the export decides by a file and absorbs its
\* own exceptions; then the success dict is returned
ExportAndReturn(w) ==
    /\ Run(w).pc = "export"
    /\ \E should_export \in BOOLEAN :
          etl' = [etl EXCEPT
                    !.run[w].pc = "main",
                    !.run[w].result = RunResult(FALSE, Run(w).density_calculated,
                                                should_export)]

\* lines 382-388
ExceptClause(w) ==
    /\ Run(w).pc = "except"
    /\ etl' = [etl EXCEPT !.run[w].pc = "main", !.run[w].result = ErrorResult]

\* what is left of a run when its caller is done with it: the status it
\* returned, whether an exception reached the caller, and the caller's answer
Ended(r, exit_code, http_status) ==
    [IdleRun EXCEPT !.pc = "exited",
                    !.result = [NoResult EXCEPT !.status = r.result.status],
                    !.reached_main = r.reached_main, !.exit_code = exit_code,
                    !.http_status = http_status]

\* what the next run to start remembers of the run r
LastRun(r) ==
    IF r.attempted /\ r.returned = "False"
    THEN [no_result |-> TRUE, gate_raised |-> r.gate_raised, gate_stores |-> r.gate_stores]
    ELSE NoPrev

\* main.py lines 23-33
MainExit ==
    /\ Run("main").pc = "main"
    /\ etl' = [etl EXCEPT
                 !.run["main"] = Ended(Run("main"),
                                       ExitCode(Run("main").result,
                                                Run("main").reached_main), -1),
                 !.last = LastRun(Run("main"))]

\* app.py lines 25-30
TriggerEtlReturn ==
    /\ Run("app").pc = "main"
    /\ etl' = [etl EXCEPT
                 !.run["app"] = Ended(Run("app"), -1,
                                      trigger_etl(Run("app").result,
                                                  Run("app").reached_main)),
                 !.last = LastRun(Run("app"))]

\* clear_bigquery.py lines 18-35: DELETE FROM posts, then DELETE FROM density, each
\* in a try of its own.  The script names the tables `posts` and `density`; the
\* rows of the pipeline's density table are gone when that is its name and the
\* DELETE succeeds.  (The posts are not kept in the state: what the query for the
\* recent posts returns is any of RecentFrames at any time.)
ClearBigQuery ==
    \E deleted \in BOOLEAN :
        etl' = [etl EXCEPT !.density_table = IF deleted THEN <<>>
                                             ELSE etl.density_table]

RunStep(w) ==
    \/ StartRun(w)
    \/ InitializeClients(w)
    \/ ExtractPosts(w)
    \/ TransformPosts(w)
    \/ LoadPosts(w)
    \/ Gate(w)
    \/ CalculateAndLoadDensity(w)
    \/ ExportAndReturn(w)
    \/ ExceptClause(w)

NextETL ==
    /\ \/ Tick
       \/ \E w \in Runners : RunStep(w)
       \/ MainExit
       \/ TriggerEtlReturn
       \/ ClearBigQuery
    /\ UNCHANGED <<calls, np_random, seeded_draws>>

\* a grid of ten posts stored at minute 0 by an earlier run
StoredBefore ==
    <<[calculated_at |-> 0, posts_count |-> MinRecentPosts,
       rows |-> _calculate_dynamic_resolution(MinRecentPosts, EtlBaseResolution)
                * _calculate_dynamic_resolution(MinRecentPosts, EtlBaseResolution)]>>

\* an earlier run found the density table empty and too few recent posts
AfterNoResult == [no_result |-> TRUE, gate_raised |-> FALSE, gate_stores |-> 0]

\* the pipeline is followed from an empty density table, from one that holds a
\* grid, and from an empty one after a run without a result
EtlStarts ==
    {EtlInit,
     [EtlInit EXCEPT !.density_table = StoredBefore],
     [EtlInit EXCEPT !.last = AfterNoResult]}

\* the recent posts stay under 1000 rows, so that model never samples
InitETL ==
    /\ calls = [t \in Callers |-> IdleFrame]
    /\ np_random \in {0}
    /\ seeded_draws = {}
    /\ etl \in EtlStarts

SpecETL == InitETL /\ [][NextETL]_vars

-----------------------------------------------------------------------------
(* Properties *)

ModelDone(f) == f.op = "model" /\ f.pc = "done"

\* the histogram of a model call has been built
Binned(f) ==
    /\ f.op = "model"
    /\ f.pc \in {"smooth", "correct", "mesh"} \/ (f.pc = "done" /\ ~f.ret.isNone)

\* the sampling step of a model call is over
Sampled(f) ==
    /\ f.op = "model"
    /\ f.pc \in {"bounds", "hist", "smooth", "correct", "mesh"}
       \/ (f.pc = "done" /\ ~f.ret.isNone)

HistSum(hist) == SumSeq([ix \in 1 .. Len(hist) |-> SumSeq(hist[ix], 1)], 1)

FiniteCoords(df) == \A p \in Rows(df) : ~IsNaN(p[1]) /\ ~IsNaN(p[2])

\* a box the histogram accepts: none given, or four bounds with min <= max
BoxUsable(box) ==
    \/ box.x_min.isNone
    \/ /\ ~box.x_max.isNone /\ ~box.y_min.isNone /\ ~box.y_max.isNone
       /\ box.x_min.v <= box.x_max.v /\ box.y_min.v <= box.y_max.v

\* the box handed to the histogram has x_min < x_max and y_min < y_max
ValidBox(bnd) == bnd.x_min.v < bnd.x_max.v /\ bnd.y_min.v < bnd.y_max.v

InClosedBox(p, bnd) ==
    /\ ~IsNaN(p[1]) /\ ~IsNaN(p[2])
    /\ bnd.x_min.v <= 10 * p[1] /\ 10 * p[1] <= bnd.x_max.v
    /\ bnd.y_min.v <= 10 * p[2] /\ 10 * p[2] <= bnd.y_max.v

InOpenBox(p, bnd) ==
    /\ ~IsNaN(p[1]) /\ ~IsNaN(p[2])
    /\ bnd.x_min.v < 10 * p[1] /\ 10 * p[1] < bnd.x_max.v
    /\ bnd.y_min.v < 10 * p[2] /\ 10 * p[2] < bnd.y_max.v

OnBorder(p, bnd) == InClosedBox(p, bnd) /\ ~InOpenBox(p, bnd)

RowsInClosedBox(df, bnd) ==
    SumSeq([i \in 1 .. Len(PaletteSeq) |->
              IF InClosedBox(PaletteSeq[i], bnd) THEN df[PaletteSeq[i]] ELSE 0], 1)

RowsInOpenBox(df, bnd) ==
    SumSeq([i \in 1 .. Len(PaletteSeq) |->
              IF InOpenBox(PaletteSeq[i], bnd) THEN df[PaletteSeq[i]] ELSE 0], 1)

\* C1: a call of model never ends in an exception at the caller: whatever the
\* frame and the parameters, it ends with None or with a result whose flattened
\* density has resolution^2 cells.
C1_ModelNeverRaises ==
    \A t \in Callers :
        calls[t].op = "model" =>
            /\ calls[t].pc # "raised"
            /\ ~calls[t].raised
            /\ calls[t].pc = "done" =>
                  \/ calls[t].ret.isNone
                  \/ Len(calls[t].ret.density_flat.num)
                        = calls[t].dynamic_resolution * calls[t].dynamic_resolution

\* C1 witness: a call with at least 10 rows that failed inside the try block and
\* returned None
C1_AbsorbedFailure ==
    \E t \in Callers :
        /\ ModelDone(calls[t])
        /\ calls[t].data_size >= 10
        /\ calls[t].ret.isNone

\* C2: model returns None for every frame of fewer than 10 rows, and a result for
\* a frame of exactly 10 rows with finite coordinates (given the columns, a
\* positive base resolution and a box the histogram accepts).
C2_TenRowBoundary ==
    \A t \in Callers :
        ModelDone(calls[t]) =>
            /\ FrameLen(calls[t].df) < 10 => calls[t].ret.isNone
            /\ ( /\ FrameLen(calls[t].df) = 10
                 /\ FiniteCoords(calls[t].df)
                 /\ calls[t].has_cols
                 /\ calls[t].base_resolution >= 1
                 /\ BoxUsable(calls[t].box) )
               => ~calls[t].ret.isNone

\* C2 witness: a call on exactly 10 rows that returned a result
C2_TenRowsResult ==
    \E t \in Callers :
        /\ ModelDone(calls[t])
        /\ FrameLen(calls[t].df) = 10
        /\ ~calls[t].ret.isNone

\* C3 (as claimed): whenever model returns a result, at least 10 rows were binned
\* into the grid: fewer than 10 rows left after sampling and after dropping the
\* rows outside the box means None.
C3_NoGridFromFewerThanTen ==
    \A t \in Callers :
        (ModelDone(calls[t]) /\ ~calls[t].ret.isNone) => HistSum(calls[t].hist) >= 10

\* C4 (as claimed): over a valid box the raw histogram sums to the number of binned
\* rows strictly inside the box.
C4_HistSumStrictlyInside ==
    \A t \in Callers :
        (Binned(calls[t]) /\ ValidBox(calls[t].bnd)) =>
            HistSum(calls[t].hist) = RowsInOpenBox(calls[t].sampled_df, calls[t].bnd)

\* C4 (amended): over a valid box the raw histogram sums to the number of binned
\* rows inside the closed box, its border included; rows outside are dropped,
\* not clipped into the edge cells.
C4_HistSumClosedBox ==
    \A t \in Callers :
        (Binned(calls[t]) /\ ValidBox(calls[t].bnd)) =>
            HistSum(calls[t].hist) = RowsInClosedBox(calls[t].sampled_df, calls[t].bnd)

\* C4 witness: a histogram over a valid box with a row on the border (counted)
\* and a row outside (dropped)
C4_BorderAndOutside ==
    \E t \in Callers :
        /\ Binned(calls[t]) /\ ValidBox(calls[t].bnd)
        /\ \E p \in Rows(calls[t].sampled_df) : OnBorder(p, calls[t].bnd)
        /\ \E p \in Rows(calls[t].sampled_df) : ~InClosedBox(p, calls[t].bnd)
        /\ HistSum(calls[t].hist) > 0

\* C5: for a target m < n the sampler returns at most m rows, whether it took
\* the stratified or the fallback path, called directly or from model.
C5_SampleAtMostTarget ==
    \A t \in Callers :
        /\ ( /\ calls[t].op = "sample" /\ calls[t].pc = "done"
             /\ calls[t].n_sample < FrameLen(calls[t].df) )
           => FrameLen(calls[t].sampled_df) <= calls[t].n_sample
        /\ (Sampled(calls[t]) /\ calls[t].sample_pct < 10)
           => FrameLen(calls[t].sampled_df) <= calls[t].max_sample

\* C5 witness: a stratified sample with more occupied bins than the target, cut
\* down to exactly the target
C5_TrimmedToTarget ==
    \E t \in Callers :
        /\ calls[t].op = "sample" /\ calls[t].pc = "done"
        /\ calls[t].path = "stratified"
        /\ calls[t].n_sample < FrameLen(calls[t].df)
        /\ Cardinality(OccupiedBins(SpatialBin(calls[t].df, NBins(calls[t].n_sample))))
              > calls[t].n_sample
        /\ FrameLen(calls[t].sampled_df) = calls[t].n_sample

\* C6 (as claimed): for a target m >= n the sampler returns the frame it was
\* given, every row of it.
C6_FullSetReturned ==
    \A t \in Callers :
        ( /\ calls[t].op = "sample" /\ calls[t].pc = "done"
          /\ calls[t].n_sample >= FrameLen(calls[t].df) )
        => calls[t].sampled_df = calls[t].df

\* the arguments of a model call
Args(f) == <<f.df, f.has_cols, f.base_resolution, f.sigma, f.box>>

\* C7: two calls of model with the same arguments select the same sample and
\* return the same result, whatever ran before them or runs beside them.
C7_SameArgsSameResult ==
    \A t, u \in Callers :
        ( /\ ModelDone(calls[t]) /\ ModelDone(calls[u])
          /\ Args(calls[t]) = Args(calls[u]) )
        => /\ calls[t].sampled_df = calls[u].sampled_df
           /\ calls[t].ret = calls[u].ret

\* C7 witness: two finished calls with the same arguments, both sampled by a
\* draw and both with a result
C7_TwoSampledCalls ==
    /\ ModelDone(calls[1]) /\ ModelDone(calls[2])
    /\ Args(calls[1]) = Args(calls[2])
    /\ calls[1].sample_pct < 10 /\ calls[1].path = "stratified"
    /\ FrameLen(calls[1].sampled_df) < FrameLen(calls[1].df)
    /\ ~calls[1].ret.isNone /\ ~calls[2].ret.isNone

\* the grid g is the grid h divided by pct/10, cell for cell
IsQuotient(g, h, pct) ==
    /\ Len(g.num) = Len(h.num)
    /\ \A r \in 1 .. Len(h.num) : \A c \in 1 .. Len(h.num) :
          g.num[r][c] * pct * h.den = h.num[r][c] * 10 * g.den

\* C8: the returned density is the smoothed histogram divided by the sampling
\* fraction p when p < 1, and the smoothed histogram itself when p = 1; the
\* smoothed grid is the Gaussian filter of the transposed raw histogram, so the
\* division comes after smoothing and is applied once.
C8_BiasCorrection ==
    \A t \in Callers :
        (ModelDone(calls[t]) /\ ~calls[t].ret.isNone) =>
            /\ calls[t].smoothed
                  = Grid(GaussianFilter(Transpose(calls[t].hist), calls[t].sigma))
            /\ IF calls[t].sample_pct < 10
               THEN IsQuotient(calls[t].ret.density, calls[t].smoothed,
                               calls[t].sample_pct)
               ELSE calls[t].ret.density = calls[t].smoothed

\* C8 witness: a result computed from a sample (p = 0.8) with a non-zero cell
C8_CorrectedResult ==
    \E t \in Callers :
        /\ ModelDone(calls[t]) /\ ~calls[t].ret.isNone
        /\ calls[t].sample_pct = 8
        /\ \E r, c \in 1 .. calls[t].dynamic_resolution :
              calls[t].ret.density.num[r][c] > 0

\* the smoothed count of histogram cell (ix, iy), summed directly over the
\* histogram in its own orientation hist[x bin][y bin]
SmoothedCell(hist, sigma, ix, iy) ==
    SumSeq([jx \in 1 .. Len(hist) |->
              SumSeq([jy \in 1 .. Len(hist) |->
                        Weight(Kernel(sigma), ix - jx) * Weight(Kernel(sigma), iy - jy)
                            * hist[jx][jy]], 1)], 1)

\* C9: in every result the flattened outputs are aligned: density_flat[i] is the
\* smoothed and corrected count of the histogram cell whose centre is
\* (x_flat[i], y_flat[i]).
C9_FlatOutputsAligned ==
    \A t \in Callers :
        (ModelDone(calls[t]) /\ ~calls[t].ret.isNone) =>
            LET f == calls[t]
                n == f.dynamic_resolution
                xc == Centers(f.x_edges, n)
                yc == Centers(f.y_edges, n)
            IN  /\ Len(f.ret.x_flat) = n * n
                /\ Len(f.ret.y_flat) = n * n
                /\ Len(f.ret.density_flat.num) = n * n
                /\ \A i \in 1 .. n * n :
                      \E ix, iy \in 1 .. n :
                          /\ f.ret.x_flat[i] = xc[ix]
                          /\ f.ret.y_flat[i] = yc[iy]
                          /\ f.ret.density_flat.num[i] * f.sample_pct
                                = SmoothedCell(f.hist, f.sigma, ix, iy) * 10
                                    * f.ret.density_flat.den

\* C9 witness: a result whose histogram is not symmetric, so that swapping the
\* axes would show
C9_AsymmetricResult ==
    \E t \in Callers :
        /\ ModelDone(calls[t]) /\ ~calls[t].ret.isNone
        /\ \E ix, iy \in 1 .. calls[t].dynamic_resolution :
              calls[t].hist[ix][iy] # calls[t].hist[iy][ix]

\* C10 (as claimed): for every base resolution the selected resolution does not
\* grow with the number of points: no larger n gets a larger resolution.
C10_ResolutionNonIncreasing ==
    \A t \in Callers :
        (calls[t].op = "resolution" /\ calls[t].pc = "done") =>
            \A n2 \in DataSizes :
                n2 >= calls[t].data_size =>
                    _calculate_dynamic_resolution(n2, calls[t].base_resolution)
                        <= calls[t].resolution

\* C11 (as claimed): for every point count and every base resolution the selected
\* resolution r is an integer with 20 <= r <= 2b.
C11_ResolutionInRange ==
    \A t \in Callers :
        (calls[t].op = "resolution" /\ calls[t].pc = "done") =>
            /\ 20 <= calls[t].resolution
            /\ calls[t].resolution <= 2 * calls[t].base_resolution

\* the integers nearest to b * k / 10: one, or the two neighbours of a tie
Nearest(b, k) == {q \in 0 .. (2 * b) : 10 * q - b * k <= 5 /\ b * k - 10 * q <= 5}

\* the tier table of the resolution selector, given the integers q15, q8, q6, q4
\* that stand for 1.5b, 0.8b, 0.6b and 0.4b
TierTable(n, b, q15, q8, q6, q4) ==
    IF n < 100 THEN Min2(100, 2 * b)
    ELSE IF n < 500 THEN Min2(80, q15)
    ELSE IF n < 2000 THEN b
    ELSE IF n < 10000 THEN Max2(30, q8)
    ELSE IF n < 50000 THEN Max2(25, q6)
    ELSE Max2(20, q4)

\* C12 (as claimed): the selected resolution is the tier table with 1.5b, 0.8b,
\* 0.6b and 0.4b rounded to the nearest integer (a tie rounded either way).
C12_TableRoundsToNearest ==
    \A t \in Callers :
        (calls[t].op = "resolution" /\ calls[t].pc = "done") =>
            \E q15 \in Nearest(calls[t].base_resolution, 15),
               q8 \in Nearest(calls[t].base_resolution, 8),
               q6 \in Nearest(calls[t].base_resolution, 6),
               q4 \in Nearest(calls[t].base_resolution, 4) :
                calls[t].resolution
                    = TierTable(calls[t].data_size, calls[t].base_resolution,
                                q15, q8, q6, q4)

\* C12 (amended): the selected resolution is the tier table with 1.5b, 0.8b, 0.6b
\* and 0.4b truncated to an integer (rounded down, never up), for b >= 1.
C12_TableTruncates ==
    \A t \in Callers :
        (calls[t].op = "resolution" /\ calls[t].pc = "done") =>
            LET b == calls[t].base_resolution
            IN  calls[t].resolution
                    = TierTable(calls[t].data_size, b, (15 * b) \div 10, (8 * b) \div 10,
                                (6 * b) \div 10, (4 * b) \div 10)

\* C12 witness: a call in the tier 2000 <= n < 10000 whose 0.8b has a fraction
\* above one half and lies above the floor of 30, so that rounding would show
C12_TruncatedAboveFloor ==
    \E t \in Callers :
        /\ calls[t].op = "resolution" /\ calls[t].pc = "done"
        /\ calls[t].data_size >= 2000 /\ calls[t].data_size < 10000
        /\ (8 * calls[t].base_resolution) % 10 > 5
        /\ calls[t].resolution > 30

\* the sampling fraction the tier table gives for n rows, in tenths
TablePct(n) ==
    CASE n < 1000 -> 10
      [] n >= 1000 /\ n < 5000 -> 8
      [] n >= 5000 /\ n < 20000 -> 5
      [] n >= 20000 /\ n < 50000 -> 3
      [] n >= 50000 /\ n < 100000 -> 2
      [] n >= 100000 -> 1

\* C13: model takes the sampling fraction p from the tier table; below 1000 rows
\* the sampler is not invoked and the frame itself is binned; from 1000 rows on
\* the sampler is invoked with the target floor(n * p), which is below n.
C13_SamplingTiers ==
    \A t \in Callers :
        Sampled(calls[t]) =>
            LET n == FrameLen(calls[t].df)
            IN  /\ calls[t].sample_pct = TablePct(n)
                /\ IF n < 1000
                   THEN calls[t].path = "none" /\ calls[t].sampled_df = calls[t].df
                   ELSE /\ calls[t].path \in {"stratified", "fallback"}
                        /\ calls[t].n_sample = (n * TablePct(n)) \div 10
                        /\ calls[t].n_sample < n

\* C13 witness: a result from 100000 rows, sampled at 10 % down to 10000 rows
C13_TenPercentResult ==
    \E t \in Callers :
        /\ ModelDone(calls[t]) /\ ~calls[t].ret.isNone
        /\ FrameLen(calls[t].df) = 100000
        /\ calls[t].n_sample = 10000
        /\ FrameLen(calls[t].sampled_df) = 10000

\* C14 (as claimed): whenever model derives the box from the data, the padded box
\* it hands to the histogram has x_min < x_max and y_min < y_max, also when all
\* rows share an x or a y value.
C14_DerivedBoxNonEmpty ==
    \A t \in Callers :
        (Binned(calls[t]) /\ calls[t].box.x_min.isNone) => ValidBox(calls[t].bnd)

\* the box [min - 0.1 (max - min), max + 0.1 (max - min)] of the rows of df on
\* each axis, in tenths
PaddedBox(df) ==
    [x_min |-> Some(10 * ColMin(df, 1) - (ColMax(df, 1) - ColMin(df, 1))),
     x_max |-> Some(10 * ColMax(df, 1) + (ColMax(df, 1) - ColMin(df, 1))),
     y_min |-> Some(10 * ColMin(df, 2) - (ColMax(df, 2) - ColMin(df, 2))),
     y_max |-> Some(10 * ColMax(df, 2) + (ColMax(df, 2) - ColMin(df, 2)))]

\* the caller gave all four bounds
BoxGiven(box) ==
    ~box.x_min.isNone /\ ~box.x_max.isNone /\ ~box.y_min.isNone /\ ~box.y_max.isNone

\* the four bounds as the caller gave them, in tenths
GivenBox(box) ==
    [x_min |-> Some(10 * box.x_min.v), x_max |-> Some(10 * box.x_max.v),
     y_min |-> Some(10 * box.y_min.v), y_max |-> Some(10 * box.y_max.v)]

\* C15 (as claimed): without a box from the caller, the box used is the padded
\* range of the coordinates of the frame passed in; with a box from the caller,
\* the box used is that box.
C15_BoxFromPointSet ==
    \A t \in Callers :
        Binned(calls[t]) =>
            /\ (calls[t].box = NoBox /\ FiniteCoords(calls[t].df))
               => calls[t].bnd = PaddedBox(calls[t].df)
            /\ BoxGiven(calls[t].box) => calls[t].bnd = GivenBox(calls[t].box)

\* C15 (amended): without an x_min from the caller, the box used is the padded
\* range of the coordinates of the rows that are binned (the sample from 1000
\* rows on, the frame itself below); with all four bounds from the caller, the
\* box used is that box.
C15_BoxFromBinnedRows ==
    \A t \in Callers :
        Binned(calls[t]) =>
            /\ calls[t].box.x_min.isNone
               => calls[t].bnd = PaddedBox(calls[t].sampled_df)
            /\ BoxGiven(calls[t].box) => calls[t].bnd = GivenBox(calls[t].box)

\* C15 witness: a box derived from a sample that lost the frame's smallest x, so
\* that the box differs from the padded range of the frame
C15_SampleLostExtreme ==
    \E t \in Callers :
        /\ Binned(calls[t]) /\ calls[t].box = NoBox
        /\ FiniteCoords(calls[t].df)
        /\ calls[t].sample_pct < 10
        /\ ColMin(calls[t].sampled_df, 1) > ColMin(calls[t].df, 1)
        /\ calls[t].bnd # PaddedBox(calls[t].df)

\* m is an r x r array
IsSquare(m, r) == Len(m) = r /\ \A i \in 1 .. r : Len(m[i]) = r

\* C16: in every result the density array and both meshes are resolution x
\* resolution, resolution being what the resolution selector returns for the
\* call's row count and base resolution, and each flattened field has
\* resolution^2 entries.
C16_ShapeIsResolution ==
    \A t \in Callers :
        (ModelDone(calls[t]) /\ ~calls[t].ret.isNone) =>
            LET r == _calculate_dynamic_resolution(FrameLen(calls[t].df),
                                                   calls[t].base_resolution)
            IN  /\ IsSquare(calls[t].ret.density.num, r)
                /\ IsSquare(calls[t].ret.x, r)
                /\ IsSquare(calls[t].ret.y, r)
                /\ Len(calls[t].ret.density_flat.num) = r * r
                /\ Len(calls[t].ret.x_flat) = r * r
                /\ Len(calls[t].ret.y_flat) = r * r

\* C16 witness: a result on a grid of at least 4 x 4 cells
C16_FourByFourResult ==
    \E t \in Callers :
        /\ ModelDone(calls[t]) /\ ~calls[t].ret.isNone
        /\ calls[t].dynamic_resolution >= 4
        /\ Len(calls[t].ret.x) = calls[t].dynamic_resolution

\* every cell of grid g is >= 0
NonNegative(g) ==
    /\ g.den > 0
    /\ \A r \in 1 .. Len(g.num) : \A c \in 1 .. Len(g.num[r]) : g.num[r][c] >= 0

\* C17: in every result every cell of the density grid is >= 0, after smoothing
\* and after bias correction.
C17_DensityNonNegative ==
    \A t \in Callers :
        (ModelDone(calls[t]) /\ ~calls[t].ret.isNone) =>
            /\ NonNegative(calls[t].smoothed)
            /\ NonNegative(calls[t].ret.density)
            /\ \A i \in 1 .. Len(calls[t].ret.density_flat.num) :
                  calls[t].ret.density_flat.num[i] >= 0

\* C17 witness: a smoothed (sigma 1.5) and corrected result on at least 3 x 3
\* cells with an occupied cell and an empty one
C17_SmoothedCorrectedResult ==
    \E t \in Callers :
        /\ ModelDone(calls[t]) /\ ~calls[t].ret.isNone
        /\ calls[t].sigma = 15 /\ calls[t].sample_pct < 10
        /\ calls[t].dynamic_resolution >= 3
        /\ \E r, c \in 1 .. calls[t].dynamic_resolution : calls[t].hist[r][c] > 0
        /\ \E r, c \in 1 .. calls[t].dynamic_resolution : calls[t].hist[r][c] = 0

\* the fields of a result that hold the grid and the meshes
GridFields == {"x", "y", "density", "x_flat", "y_flat", "density_flat"}

\* C18 (as claimed): a result holds, besides the density grid and the meshes in
\* 2-D and flattened form, the bounding box used and the resolution used: at
\* least two more fields.
C18_ResultCarriesBoxAndResolution ==
    \A t \in Callers :
        (ModelDone(calls[t]) /\ ~calls[t].ret.isNone) =>
            Cardinality((DOMAIN calls[t].ret) \ (GridFields \cup {"isNone"})) >= 2

\* C19: model and the sampler never change the caller's frame: on every path it
\* keeps its columns (no 'spatial_bin' column appears in it) and, from the entry
\* of a call to its end, its rows.
C19_InputNotMutated ==
    /\ [](\A t \in Callers :
            calls[t].op \in {"model", "sample"}
                => calls[t].df_columns = Columns(calls[t].has_cols))
    /\ [][\A t \in Callers :
            (calls[t].pc # "idle" /\ calls'[t].pc # "idle")
                => /\ calls'[t].df = calls[t].df
                   /\ calls'[t].df_columns = calls[t].df_columns]_vars

\* C19 witness: a model call that sampled on the stratified path (where the
\* 'spatial_bin' column is added to the working copy) and returned a result
C19_StratifiedThenResult ==
    \E t \in Callers :
        /\ ModelDone(calls[t]) /\ ~calls[t].ret.isNone
        /\ calls[t].path = "stratified"
        /\ calls[t].df_columns = {"x_col", "y_col"}
        /\ FrameLen(calls[t].sampled_df) < FrameLen(calls[t].df)

\* sub is made of rows of df
RowsOf(sub, df) == \A p \in Palette : sub[p] <= df[p]

\* C20: when the stratified construction fails, the sampler (called with a
\* target m >= 0) does not raise: it returns min(m, n) rows of the frame it was
\* given, and model goes on with them as with any sample.
C20_FallbackSample ==
    \A t \in Callers :
        /\ (calls[t].op = "sample" /\ calls[t].n_sample >= 0)
           => (calls[t].pc = "done" /\ ~calls[t].raised)
        /\ (calls[t].op = "sample" /\ calls[t].pc = "done" /\ calls[t].path = "fallback")
           => /\ FrameLen(calls[t].sampled_df)
                    = Min2(calls[t].n_sample, FrameLen(calls[t].df))
              /\ RowsOf(calls[t].sampled_df, calls[t].df)
        /\ (calls[t].op = "model" /\ calls[t].sample_pct < 10
              /\ calls[t].pc \notin {"guard", "plan", "sample"})
           => ~calls[t].raised
        /\ (calls[t].op = "model" /\ calls[t].path = "fallback")
           => /\ Sampled(calls[t]) \/ calls[t].pc \in {"except", "done"}
              /\ FrameLen(calls[t].sampled_df)
                    = Min2(calls[t].max_sample, FrameLen(calls[t].df))
              /\ RowsOf(calls[t].sampled_df, calls[t].df)

\* C20 witness: a model call whose sample came from the fallback and that
\* returned a result
C20_ResultAfterFallback ==
    \E t \in Callers :
        /\ ModelDone(calls[t]) /\ ~calls[t].ret.isNone
        /\ calls[t].path = "fallback"
        /\ FrameLen(calls[t].sampled_df) = calls[t].max_sample

\* the sum of the cells of grid g, in kernel units (of 1 / KernelMass^2) over g.den
GridSum(g) == SumSeq([r \in 1 .. Len(g.num) |-> SumSeq(g.num[r], 1)], 1)

\* the sum of the kernel's weights over -radius .. radius
KernelMass(sigma) == 2 * SumSeq(Kernel(sigma), 1) - Kernel(sigma)[1]

\* what C21 says up to the raw histogram: resolution 50, fraction 80 %, target
\* 960, a 50 x 50 grid, and a raw histogram that counts every sampled row
ScenarioUpToHistogram(f) ==
    /\ f.dynamic_resolution = 50
    /\ f.sample_pct = 8
    /\ f.n_sample = 960
    /\ IsSquare(f.ret.density.num, 50)
    /\ HistSum(f.hist) = FrameLen(f.sampled_df)
    /\ FrameLen(f.sampled_df) <= 960

\* C21 (as claimed): for 1200 rows in [0, 10] x [0, 10], base_resolution 50 and
\* no box, the resolution is 50, the fraction 80 % with target 960, the grid is
\* 50 x 50, the raw histogram sums to the number of sampled rows, and the
\* corrected density, the smoothed histogram divided by 0.8 cell by cell, sums
\* to that number divided by 0.8.
C21_ScenarioDensitySumExact ==
    \A t \in Callers :
        (ModelDone(calls[t]) /\ ~calls[t].ret.isNone) =>
            /\ ScenarioUpToHistogram(calls[t])
            /\ IsQuotient(calls[t].ret.density, calls[t].smoothed, 8)
            /\ GridSum(calls[t].smoothed)
                  = HistSum(calls[t].hist) * KernelMass(calls[t].sigma)
                      * KernelMass(calls[t].sigma)

\* the sampled rows all carry the same (x, y) pair: the derived box is empty on
\* both axes
Coincident(rows) == Cardinality(Rows(rows)) = 1

\* C21 (amended): the same up to the raw histogram.  When the sampled rows differ
\* in x or in y, the corrected density sums to less than the number of sampled
\* rows divided by 0.8: on an axis where they differ, the rows at the smallest
\* and the largest coordinate lie within the kernel's radius of the grid's border
\* and the zero padding drops the weight that falls outside.  When the sampled
\* rows all coincide, they fall in one cell farther than the radius from every
\* border and the sum is the number of sampled rows divided by 0.8.
C21_ScenarioDensitySum ==
    \A t \in Callers :
        (ModelDone(calls[t]) /\ ~calls[t].ret.isNone) =>
            LET full == HistSum(calls[t].hist) * KernelMass(calls[t].sigma)
                          * KernelMass(calls[t].sigma)
                radius == Len(Kernel(calls[t].sigma)) - 1
                NearBorder(i) == i <= radius \/ i > 50 - radius
            IN  /\ ScenarioUpToHistogram(calls[t])
                /\ IsQuotient(calls[t].ret.density, calls[t].smoothed, 8)
                /\ GridSum(calls[t].smoothed) <= full
                /\ Coincident(calls[t].sampled_df)
                      <=> GridSum(calls[t].smoothed) = full
                /\ Coincident(calls[t].sampled_df)
                      <=> \A ix, iy \in 1 .. 50 :
                             calls[t].hist[ix][iy] > 0
                                => ~NearBorder(ix) /\ ~NearBorder(iy)

\* C21 witness: a result for 1200 rows of which fewer than 960 were sampled,
\* at more than one point
C21_ScenarioResult ==
    \E t \in Callers :
        /\ ModelDone(calls[t]) /\ ~calls[t].ret.isNone
        /\ FrameLen(calls[t].df) = 1200
        /\ calls[t].base_resolution = 50
        /\ FrameLen(calls[t].sampled_df) < 960
        /\ HistSum(calls[t].hist) = FrameLen(calls[t].sampled_df)
        /\ ~Coincident(calls[t].sampled_df)

\* the sampler has returned from its stratified path, called directly or by model
StratifiedCall(f) ==
    /\ f.path = "stratified"
    /\ (f.op = "sample" /\ f.pc = "done") \/ Sampled(f)

\* the rows of `rows` that lie in spatial bin bin_id of frame df
RowsInBin(rows, df, n_sample, bin_id) ==
    FrameLen(BinData(rows, SpatialBin(df, NBins(n_sample)), bin_id))

\* each occupied bin with c rows has s(c) rows in the concatenation if c > s(c),
\* and all its c rows otherwise
BinsKeep(f, s(_)) ==
    \A bin_id \in OccupiedBins(SpatialBin(f.df, NBins(f.n_sample))) :
        LET c == RowsInBin(f.df, f.df, f.n_sample, bin_id)
            kept == RowsInBin(f.concat, f.df, f.n_sample, bin_id)
        IN  /\ kept = IF c <= s(c) THEN c ELSE s(c)
            /\ kept >= 1

\* C23 (as claimed): on the stratified path a bin of c rows gets the size
\* s = max(1, round(c/n * m)), c/n * m rounded to the nearest integer (the
\* result is the same here whichever way a tie goes); the bin keeps all its rows
\* when c <= s and exactly s rows otherwise, at least one in every case.
C23_BinSizeRounded ==
    \A t \in Callers :
        StratifiedCall(calls[t]) =>
            LET f == calls[t]
                n == FrameLen(f.df)
                half_up(c) == Max2(1, (2 * c * f.n_sample + n) \div (2 * n))
                half_down(c) == Max2(1, (2 * c * f.n_sample + n - 1) \div (2 * n))
            IN  BinsKeep(f, half_up) \/ BinsKeep(f, half_down)

\* C23 (amended): the size is s = max(1, int(c/n * m)), the double product
\* truncated: floor(c*m/n), or one less where the double product falls just
\* below the whole number c*m/n; the bin keeps all its rows when c <= s and
\* exactly s rows otherwise, at least one in every case.
C23_BinSizeTruncated ==
    \A t \in Callers :
        StratifiedCall(calls[t]) =>
            LET f == calls[t]
                n == FrameLen(f.df)
                truncated(c) ==
                    Max2(1, IF DoubleFallsBelow(c, n, f.n_sample)
                            THEN ((c * f.n_sample) \div n) - 1
                            ELSE (c * f.n_sample) \div n)
            IN  BinsKeep(f, truncated)

\* C23 witness: a direct call on the stratified path with a bin of 2 rows whose
\* share c/n * m is 1.75: one row of the bin is kept
C23_ShareTruncatedToOne ==
    \E t \in Callers :
        /\ calls[t].op = "sample" /\ calls[t].pc = "done"
        /\ calls[t].path = "stratified"
        /\ FrameLen(calls[t].df) = 8 /\ calls[t].n_sample = 7
        /\ \E bin_id \in OccupiedBins(SpatialBin(calls[t].df, NBins(7))) :
              /\ RowsInBin(calls[t].df, calls[t].df, 7, bin_id) = 2
              /\ RowsInBin(calls[t].concat, calls[t].df, 7, bin_id) = 1

\* C24: on the stratified path, a concatenation of more than m rows is cut to
\* exactly m rows drawn from it, and a concatenation of at most m rows is
\* returned as it is.
C24_TrimOnlyWhenOver ==
    \A t \in Callers :
        StratifiedCall(calls[t]) =>
            IF FrameLen(calls[t].concat) > calls[t].n_sample
            THEN /\ FrameLen(calls[t].sampled_df) = calls[t].n_sample
                 /\ RowsOf(calls[t].sampled_df, calls[t].concat)
            ELSE calls[t].sampled_df = calls[t].concat

\* C24 witness: a concatenation of more than m >= 1 rows, cut to m rows
C24_ConcatenationCut ==
    \E t \in Callers :
        /\ StratifiedCall(calls[t])
        /\ calls[t].n_sample >= 1
        /\ FrameLen(calls[t].concat) > calls[t].n_sample
        /\ FrameLen(calls[t].sampled_df) = calls[t].n_sample

\* the order of the steps of model: each step hands over to the next one, or to
\* the except clause, or (from the guard) to the caller
PcOrder ==
    {<<"guard", "plan">>, <<"guard", "done">>, <<"plan", "sample">>,
     <<"sample", "bounds">>, <<"bounds", "hist">>, <<"hist", "smooth">>,
     <<"smooth", "correct">>, <<"correct", "mesh">>, <<"mesh", "done">>,
     <<"sample", "except">>, <<"bounds", "except">>, <<"hist", "except">>,
     <<"except", "done">>}

\* resolution and sampling fraction have been chosen
Planned(f) ==
    /\ f.op = "model"
    /\ f.pc \in {"sample", "bounds", "hist", "smooth", "correct", "mesh", "except"}
       \/ (f.pc = "done" /\ ~Insufficient(f.df))

\* what each step of a model call has consumed and produced so far
StepsConsumeEarlierOutputs(f) ==
    /\ Planned(f) =>
          /\ f.dynamic_resolution
                = _calculate_dynamic_resolution(FrameLen(f.df), f.base_resolution)
          /\ f.sample_pct = SamplePct(FrameLen(f.df))
          /\ f.max_sample = MaxSample(FrameLen(f.df))
    /\ (f.op = "model" /\ f.pc \in {"guard", "plan", "sample"}) =>
          f.sampled_df = EmptyFrame /\ f.hist = <<>>
    /\ (f.op = "model" /\ f.pc \in {"bounds", "hist"}) =>
          f.hist = <<>> /\ f.smoothed = NoGrid
    /\ Binned(f) =>
          f.hist = Histogram2d(f.sampled_df, f.dynamic_resolution, f.bnd).hist
    /\ (f.op = "model" /\ f.pc = "smooth") => f.smoothed = NoGrid
    /\ (f.op = "model" /\ f.pc = "correct") =>
          /\ f.smoothed = Grid(GaussianFilter(Transpose(f.hist), f.sigma))
          /\ f.density = f.smoothed
    /\ (f.op = "model" /\ (f.pc = "mesh" \/ (f.pc = "done" /\ ~f.ret.isNone))) =>
          /\ f.smoothed = Grid(GaussianFilter(Transpose(f.hist), f.sigma))
          /\ f.density = Correct(f.smoothed, f.sample_pct)
    /\ (ModelDone(f) /\ ~f.ret.isNone) => f.ret.density = f.density

\* C25: within a call of model the steps run in a fixed order: resolution and
\* sampling fraction are chosen from the row count of the frame passed in, then
\* the sampler runs, then the histogram is built from the sampled rows, then
\* smoothing, then bias correction, each step from what the earlier ones made.
C25_StepsInOrder ==
    /\ [](\A t \in Callers : StepsConsumeEarlierOutputs(calls[t]))
    /\ [][\A t \in Callers :
            ( /\ calls[t].op = "model" /\ calls'[t].op = "model"
              /\ calls'[t].pc # calls[t].pc )
            => <<calls[t].pc, calls'[t].pc>> \in PcOrder]_vars

\* C25 witness: a result whose resolution, chosen from the frame's row count,
\* is not the one the sampled row count would select
C25_ResolutionFromOriginalCount ==
    \E t \in Callers :
        /\ ModelDone(calls[t]) /\ ~calls[t].ret.isNone
        /\ calls[t].sample_pct < 10
        /\ _calculate_dynamic_resolution(FrameLen(calls[t].sampled_df),
                                         calls[t].base_resolution)
              # calls[t].dynamic_resolution

\* C29: the rows the sampler returns are rows of the frame it was given, none
\* more often than the frame holds it, on the stratified and on the fallback
\* path; the frame returned has the columns of the frame given.
C29_SampleIsSubset ==
    \A t \in Callers :
        ( \/ (calls[t].op = "sample" /\ calls[t].pc = "done")
          \/ (Sampled(calls[t]) /\ calls[t].path \in {"stratified", "fallback"}) )
        => /\ RowsOf(calls[t].sampled_df, calls[t].df)
           /\ calls[t].sampled_columns = Columns(calls[t].has_cols)

\* C29 witness: a direct call on the stratified path that returned some but not
\* all rows of a point of the frame
C29_PartOfAPoint ==
    \E t \in Callers :
        /\ calls[t].op = "sample" /\ calls[t].pc = "done"
        /\ calls[t].path = "stratified"
        /\ \E p \in Palette :
              calls[t].sampled_df[p] > 0 /\ calls[t].sampled_df[p] < calls[t].df[p]
        /\ calls[t].sampled_columns = {"x_col", "y_col"}

\* the bounds step of a model call is over
Bounded(f) ==
    /\ f.op = "model"
    /\ f.pc \in {"hist", "smooth", "correct", "mesh"} \/ (f.pc = "done" /\ ~f.ret.isNone)

\* C30: x_min alone decides where the bounds come from.  Without x_min all four
\* bounds are derived from the binned rows, whatever else the caller gave; with
\* x_min the four bounds are the caller's, omitted ones included, and a call
\* that gave x_min but omitted another bound returns None.
C30_XMinAloneDecides ==
    \A t \in Callers :
        /\ (Bounded(calls[t]) /\ calls[t].box.x_min.isNone
              /\ FiniteCoords(calls[t].sampled_df))
           => calls[t].bnd = PaddedBox(calls[t].sampled_df)
        /\ (Bounded(calls[t]) /\ ~calls[t].box.x_min.isNone)
           => /\ calls[t].bnd.x_min = Some(10 * calls[t].box.x_min.v)
              /\ calls[t].bnd.x_max.isNone = calls[t].box.x_max.isNone
              /\ calls[t].bnd.y_min.isNone = calls[t].box.y_min.isNone
              /\ calls[t].bnd.y_max.isNone = calls[t].box.y_max.isNone
              /\ BoxGiven(calls[t].box) => calls[t].bnd = GivenBox(calls[t].box)
        /\ (ModelDone(calls[t]) /\ ~calls[t].box.x_min.isNone /\ ~BoxGiven(calls[t].box))
           => calls[t].ret.isNone

\* C30 witness: a call on at least 10 rows with finite coordinates that gave
\* x_min and x_max but not y_min, and returned None
C30_PartialBoxNoResult ==
    \E t \in Callers :
        /\ ModelDone(calls[t]) /\ calls[t].ret.isNone
        /\ FrameLen(calls[t].df) >= 10 /\ FiniteCoords(calls[t].df)
        /\ calls[t].has_cols /\ calls[t].base_resolution >= 1
        /\ ~calls[t].box.x_min.isNone /\ ~calls[t].box.x_max.isNone
        /\ calls[t].box.y_min.isNone

-----------------------------------------------------------------------------
(* The pipeline *)

\* the run is past calculate_and_load_density or has skipped it
PastDensity(r) == r.reached_gate /\ r.pc \in {"export", "except", "main"}

\* calculate_and_load_density returned without a grid
NoResultRun(r) == r.attempted /\ r.returned = "False"

\* the recent posts were too few, or model returned None
NoResultCase(r) ==
    /\ r.queried
    /\ r.returned # "raised"
    /\ (FrameLen(r.recent_posts_df) < 10 \/ (r.model_called /\ r.model_none))

\* C22: in calculate_and_load_density, when there are fewer than 10 recent posts
\* or model returns None, no grid field is read, nothing is appended to the
\* density table and the call returns False; the density table grows by one row
\* set at a time, the rows a run built after model returned it a result for at
\* least 10 posts.
C22_NoResultCheckedFirst ==
    /\ [](\A w \in Runners :
            /\ NoResultCase(Run(w))
               => /\ ~Run(w).fields_read
                  /\ ~Run(w).appended
                  /\ Run(w).returned = "False"
                  /\ ~Run(w).density_calculated
            /\ Run(w).appended
               => /\ Run(w).model_called /\ ~Run(w).model_none
                  /\ FrameLen(Run(w).recent_posts_df) >= 10
                  /\ Run(w).fields_read)
    /\ [][Len(etl'.density_table) > Len(etl.density_table)
          => \E w \in Runners :
                /\ Run(w).pc = "append"
                /\ Run(w).model_called /\ ~Run(w).model_none
                /\ FrameLen(Run(w).recent_posts_df) >= 10
                /\ etl'.run[w].appended
                /\ etl'.density_table = Append(etl.density_table, Run(w).density_df)]_vars

\* a run called model for ten posts and got None while the table held a grid:
\* the run returned False and appended nothing
C22_NoneFromModel ==
    /\ etl.density_table # <<>>
    /\ Run("main").queried
    /\ Run("main").model_called /\ Run("main").model_none
    /\ FrameLen(Run("main").recent_posts_df) = 10
    /\ Run("main").returned = "False"
    /\ ~Run("main").appended

\* what C26 says of the run that got no result: run_etl returns status 'success'
\* with density_calculated false, and the run has appended nothing
NoResultIsSuccess ==
    \A w \in Runners :
        (NoResultRun(Run(w)) /\ Run(w).pc = "main")
           => /\ Run(w).result.status = "success"
              /\ ~Run(w).result.density_calculated
              /\ ~Run(w).appended

\* C26 as stated: a run that attempts density and gets no result returns status
\* 'success' with density_calculated false and records no calculated_at, and the
\* run after it attempts density again.  ("The next run" is read in the claim's
\* favour: the run started next after the run without a result ended, if it
\* gets as far as the gate.)
C26_NextRunAttemptsAgain ==
    /\ NoResultIsSuccess
    /\ \A w \in Runners :
          (Run(w).prev.no_result /\ PastDensity(Run(w))) => Run(w).attempted

\* C26, corrected: a run that attempts density and gets no result returns status
\* 'success' with density_calculated false and records no calculated_at; the run
\* after it, if it reaches the gate, finds the gate open and attempts density
\* again when its own gate query fails, or when the gate of the run without a
\* result had been opened by the table (not by a failed gate query) and no run
\* has appended a grid since.
C26_NoResultIsRetryable ==
    /\ NoResultIsSuccess
    /\ \A w \in Runners :
          /\ ( /\ Run(w).prev.no_result
               /\ Run(w).reached_gate
               /\ \/ Run(w).gate_raised
                  \/ /\ ~Run(w).prev.gate_raised
                     /\ Run(w).gate_stores = Run(w).prev.gate_stores )
             => /\ Run(w).should_calculate
                /\ PastDensity(Run(w)) => Run(w).attempted
          /\ (Run(w).prev.no_result /\ ~Run(w).reached_gate) => ~Run(w).attempted

\* a run got no result behind a gate that the table had opened; the run after it
\* attempted density again and stored a grid
C26_RetriedAfterNoResult ==
    /\ Run("main").prev.no_result
    /\ ~Run("main").prev.gate_raised
    /\ ~Run("main").gate_raised
    /\ Run("main").attempted
    /\ Run("main").returned = "True"
    /\ Run("main").appended

\* C27 as stated: after a grid was stored with calculated_at = t, no run that
\* starts at or before t + 30 minutes calculates density, and a run that starts
\* more than 30 minutes after t does; without a previous calculation density is
\* calculated.  (The claim is read in its favour: t is the latest calculated_at
\* in the table when the run starts in the first part, and the one its gate
\* query finds in the other two, where the time is taken at the gate;
\* "calculates" is a grid stored in the first part and
\* calculate_and_load_density called in the other two, and the runs of the
\* other two parts are runs that get as far as the gate.)
C27_EveryThirtyMinutes ==
    \A w \in Runners :
        LET r == Run(w)
        IN  /\ r.early_start => ~r.density_calculated
            /\ (PastDensity(r) /\ ~r.gate_raised /\ ~r.time_since_last.isNone
                  /\ r.time_since_last.v > density_interval_minutes)
               => r.attempted
            /\ (PastDensity(r) /\ ~r.gate_raised /\ r.time_since_last.isNone)
               => r.attempted

\* C27, corrected: a run that reaches the gate calls calculate_and_load_density
\* exactly when its gate query fails, or the query finds no calculated_at, or the
\* time at the gate is more than 30 minutes after the latest calculated_at the
\* query found; a run that ends before the gate calculates nothing; a grid is
\* stored only by a run that called it, found at least 10 recent posts and got a
\* result from model.
C27_GateDecides ==
    \A w \in Runners :
        LET r == Run(w)
        IN  /\ r.reached_gate
               => /\ r.should_calculate
                     = ( \/ r.gate_raised
                         \/ r.time_since_last.isNone
                         \/ r.time_since_last.v > density_interval_minutes )
                  /\ PastDensity(r) => (r.attempted = r.should_calculate)
            /\ ~r.reached_gate => ~r.attempted
            /\ r.density_calculated
               => /\ r.attempted /\ FrameLen(r.recent_posts_df) >= 10
                  /\ r.model_called /\ ~r.model_none

\* a run reached the gate exactly 30 minutes after the latest grid, its query
\* answered, and run_etl returned without calculating density
C27_SkippedAtThirtyMinutes ==
    LET r == Run("main")
    IN  /\ r.pc = "main"
        /\ r.reached_gate /\ ~r.gate_raised
        /\ r.time_since_last = Some(density_interval_minutes)
        /\ ~r.attempted

\* C28: run_etl never raises: an exception that leaves initialize_clients,
\* extract_posts, transform_posts, load_posts or calculate_and_load_density ends
\* in the returned dict with status 'error', every other run returns status
\* 'success'; main exits with 1 exactly when the status is 'error' or an
\* exception reached it, and with 0 otherwise.
C28_ErrorStatusAndExitCode ==
    /\ \A w \in Runners :
          LET r == Run(w)
          IN  /\ r.raised_in # "none"
                 => /\ r.raised_in \in Stages
                    /\ r.pc \in {"except", "main"}
                    /\ ~r.reached_main
              /\ (r.pc = "main" /\ ~r.reached_main)
                 => /\ r.result.status \in {"success", "error"}
                    /\ (r.result.status = "error") = (r.raised_in \in Stages)
              /\ (r.pc = "exited" /\ ~r.reached_main)
                 => r.result.status \in {"success", "error"}
              /\ r.reached_main => r.result = NoResult /\ r.raised_in = "none"
    /\ Run("main").pc = "exited"
       => Run("main").exit_code
            = IF Run("main").result.status = "error" \/ Run("main").reached_main
              THEN 1 ELSE 0

\* run_etl returned status 'error' and main exited with 1, while the run of
\* trigger_etl is in its except clause after an append that raised
C28_ErrorExitsOne ==
    /\ Run("main").pc = "exited"
    /\ ~Run("main").reached_main
    /\ Run("main").result.status = "error"
    /\ Run("main").exit_code = 1
    /\ Run("app").pc = "except"
    /\ Run("app").raised_in = "calculate_and_load_density"
    /\ Run("app").fields_read

====
